---- MODULE Spec2Model ----
(***************************************************************************)
(* A model of layerstack: argument descriptors (args.py), layers           *)
(* (layer.py) and stacks (stack.py): editing, save / load with argument    *)
(* reconciliation, the layer directory search and Stack.run.               *)
(***************************************************************************)
EXTENDS Integers, Sequences, FiniteSets, TLC

(***************************************************************************)
(* Python values.  Every value is a record of one shape, so that any two   *)
(* values can be compared: None, an int, a str (its characters), or a list *)
(* of such scalars.                                                        *)
(***************************************************************************)
NoneV == [k |-> "none", n |-> 0, s |-> <<>>, l |-> <<>>]

IntV(i) == [k |-> "int", n |-> i, s |-> <<>>, l |-> <<>>]

StrV(cs) == [k |-> "str", n |-> 0, s |-> cs, l |-> <<>>]

ListV(xs) == [k |-> "list", n |-> 0, s |-> <<>>, l |-> xs]

\* The outcome of a call: a returned value, or the class of the exception raised.
Ok(v) == [ok |-> TRUE, v |-> v, exc |-> "none"]

Raise(e) == [ok |-> FALSE, v |-> NoneV, exc |-> e]

DigitChars == <<"0", "1", "2", "3", "4", "5", "6", "7", "8", "9">>

IsDigit(c) == \E i \in 1..10 : DigitChars[i] = c

DigitVal(c) == (CHOOSE i \in 1..10 : DigitChars[i] = c) - 1

RECURSIVE Digits(_)
\* str(n) for a natural number n
Digits(n) == IF n < 10 THEN <<DigitChars[n + 1]>>
             ELSE Digits(n \div 10) \o <<DigitChars[(n % 10) + 1]>>

RECURSIVE DigitsToInt(_)
\* int(s) for a non-empty string of digits
DigitsToInt(cs) == IF Len(cs) = 1 THEN DigitVal(cs[1])
                   ELSE 10 * DigitsToInt(SubSeq(cs, 1, Len(cs) - 1)) + DigitVal(cs[Len(cs)])

\* repr of a scalar: a str in quotes, anything else as str() gives it
PyRepr(v) == CASE v.k = "none" -> <<"N", "o", "n", "e">>
               [] v.k = "int" -> Digits(v.n)
               [] OTHER -> <<"'">> \o v.s \o <<"'">>

RECURSIVE JoinRepr(_)
JoinRepr(xs) == IF xs = <<>> THEN <<>>
                ELSE IF Len(xs) = 1 THEN PyRepr(xs[1])
                ELSE PyRepr(xs[1]) \o <<",", " ">> \o JoinRepr(Tail(xs))

\* the builtin str as a parser
PyStr(v) == CASE v.k = "none" -> StrV(<<"N", "o", "n", "e">>)
              [] v.k = "int" -> StrV(Digits(v.n))
              [] v.k = "str" -> v
              [] OTHER -> StrV(<<"[">> \o JoinRepr(v.l) \o <<"]">>)

\* the builtin int as a parser
PyInt(v) == CASE v.k = "int" -> Ok(v)
              [] v.k = "str" -> IF v.s # <<>> /\ \A i \in 1..Len(v.s) : IsDigit(v.s[i])
                                THEN Ok(IntV(DigitsToInt(v.s)))
                                ELSE Raise("ValueError")
              [] OTHER -> Raise("TypeError")

\* the builtin len as a parser: not idempotent, len(len(x)) raises
PyLen(v) == CASE v.k = "str" -> Ok(IntV(Len(v.s)))
              [] v.k = "list" -> Ok(IntV(Len(v.l)))
              [] OTHER -> Raise("TypeError")

Iterable(v) == v.k \in {"str", "list"}

\* the elements a for loop over v yields: a list's elements, a str's characters
Iterate(v) == IF v.k = "list" THEN v.l ELSE [i \in 1..Len(v.s) |-> StrV(<<v.s[i]>>)]

\* the builtin list as a list_parser
PyList(v) == IF Iterable(v) THEN Ok(ListV(Iterate(v))) ELSE Raise("TypeError")

\* a parser, list_parser or save_parser callable applied to one value
ApplyParser(p, v) == CASE p = "str" -> Ok(PyStr(v))
                       [] p = "int" -> PyInt(v)
                       [] p = "len" -> PyLen(v)
                       [] p = "list" -> PyList(v)
                       [] OTHER -> Ok(v)

\* [parser(value) for value in values]: the first failing element raises
MapParser(p, xs) ==
    LET rs == [i \in 1..Len(xs) |-> ApplyParser(p, xs[i])]
        bad == {i \in 1..Len(xs) : ~rs[i].ok}
    IN IF bad # {}
       THEN Raise(rs[CHOOSE i \in bad : \A j \in bad : i <= j].exc)
       ELSE Ok(ListV([i \in 1..Len(xs) |-> rs[i].v]))

(***************************************************************************)
(* Argument descriptors (args.py).  choices is [has, c]: has is FALSE for  *)
(* choices = None, c is the list of allowed values.                        *)
(***************************************************************************)
NoChoices == [has |-> FALSE, c |-> <<>>]

Choices(c) == [has |-> TRUE, c |-> c]

\* value in choices
InChoices(v, ch) == \E i \in 1..Len(ch.c) : ch.c[i] = v

\* KwArgBase.nargs setter: the list flag an arity gives
is_list(nargs) ==
    IF nargs \notin {NoneV, StrV(<<"?">>), StrV(<<"+">>), StrV(<<"*">>)}
    THEN TRUE
    ELSE nargs \in {StrV(<<"+">>), StrV(<<"*">>)}

\* a choices check that lets every list through
ListChoicesUnchecked(d, values) == Ok(values)

\* the choices check of a list-valued descriptor
ListChoicesCheck(d, values) ==
    IF ~d.choices.has \/ InChoices(values, d.choices) THEN Ok(values)
    ELSE IF ~Iterable(values) THEN Raise("TypeError")
    ELSE IF \E i \in 1..Len(Iterate(values)) : ~InChoices(Iterate(values)[i], d.choices)
         THEN Raise("LayerStackRuntimeError")
         ELSE Ok(values)

\* KwArgBase._process_value
process_value(d, value, none_allowed) ==
    IF none_allowed /\ value = NoneV THEN Ok(value)
    ELSE IF is_list(d.nargs)
    THEN LET r1 == IF d.parser = "None" THEN Ok(value)
                   ELSE IF ~Iterable(value) THEN Raise("TypeError")
                   ELSE MapParser(d.parser, Iterate(value))
             r2 == IF ~r1.ok \/ d.list_parser = "None" THEN r1
                   ELSE ApplyParser(d.list_parser, r1.v)
         IN IF ~r2.ok THEN r2 ELSE ListChoicesCheck(d, r2.v)
    ELSE LET r == IF d.parser = "None" THEN Ok(value) ELSE ApplyParser(d.parser, value)
         IN IF ~r.ok THEN r
            ELSE IF d.choices.has /\ ~InChoices(r.v, d.choices)
                 THEN Raise("LayerStackRuntimeError")
                 ELSE r

(***************************************************************************)
(* Arg: a positional descriptor with its value.  has_value models          *)
(* hasattr(self, '_value'); value is meaningless while has_value is FALSE. *)
(***************************************************************************)
Arg(name, nargs, parser, list_parser, choices, save_parser) ==
    [name |-> name, nargs |-> nargs, parser |-> parser, list_parser |-> list_parser,
     choices |-> choices, save_parser |-> save_parser,
     has_value |-> FALSE, value |-> NoneV]

\* Arg.set
ArgSet(a) == a.has_value

\* a value setter that drops the stored value before it parses the new one
ArgSetValueDropping(a, v) ==
    LET r == process_value(a, v, FALSE)
    IN [arg |-> IF r.ok THEN [a EXCEPT !.has_value = TRUE, !.value = r.v]
                ELSE [a EXCEPT !.has_value = FALSE, !.value = NoneV],
        exc |-> r.exc]

\* Arg.value setter (KwArgBase._set_value): the Arg afterwards and what was raised
ArgSetValue(a, v) ==
    LET r == process_value(a, v, FALSE)
    IN [arg |-> IF r.ok THEN [a EXCEPT !.has_value = TRUE, !.value = r.v] ELSE a,
        exc |-> r.exc]

\* Arg.value_to_save
value_to_save(a) == IF a.save_parser = "None" THEN a.value
                    ELSE ApplyParser(a.save_parser, a.value).v

\* ArgList.set: every Arg has its value set
ArgListSet(args) == \A i \in 1..Len(args) : ArgSet(args[i])

\* isinstance(x, Arg)
IsArg(x) == "has_value" \in DOMAIN x /\ "default" \notin DOMAIN x

\* ArgList.__setitem__: in DESC mode an Arg is put at i and anything else is
\* refused; in USE mode the value of the element at i is set.  The list
\* afterwards and what was raised
ArgListSetItem(args, mode, i, value) ==
    IF mode = "DESC"
    THEN IF IsArg(value) THEN [args |-> [args EXCEPT ![i] = value], exc |-> "none"]
         ELSE [args |-> args, exc |-> "LayerStackTypeError"]
    ELSE IF ~IsArg(args[i]) THEN [args |-> args, exc |-> "AttributeError"]
    ELSE [args |-> [args EXCEPT ![i] = ArgSetValue(@, value).arg],
          exc |-> ArgSetValue(args[i], value).exc]

\* a mode setter that also forgets the values of the Args
ModeSetForgetting(args, mode, value) ==
    [args |-> [i \in 1..Len(args) |->
                  IF IsArg(args[i]) THEN [args[i] EXCEPT !.has_value = FALSE, !.value = NoneV]
                  ELSE args[i]],
     mode |-> value, exc |-> "none"]

\* ArgList.mode / KwargDict.mode setter (ArgMode[value]): the container
\* afterwards and what was raised
ModeSet(args, mode, value) ==
    IF value \in {"DESC", "USE"} THEN [args |-> args, mode |-> value, exc |-> "none"]
    ELSE [args |-> args, mode |-> mode, exc |-> "KeyError"]

\* ArgList.__getitem__: the Arg in DESC mode, its value in USE mode
ArgListGetItem(args, mode, i) ==
    IF mode = "DESC" THEN Ok(args[i])
    ELSE IF ~IsArg(args[i]) \/ ~args[i].has_value THEN Raise("AttributeError")
    ELSE Ok(args[i].value)

(***************************************************************************)
(* Kwarg: a keyword descriptor with its default and its value.  A Kwarg    *)
(* gets its name from the key it is stored under in a KwargDict, which is  *)
(* modelled as the sequence of its Kwargs in insertion order.              *)
(***************************************************************************)
\* Kwarg.__init__, stored under the key name: the default is parsed unless None
Kwarg(name, default, nargs, parser, list_parser, choices, save_parser) ==
    LET d == [name |-> name, nargs |-> nargs, parser |-> parser, list_parser |-> list_parser,
              choices |-> choices, save_parser |-> save_parser]
    IN [name |-> name, nargs |-> nargs, parser |-> parser, list_parser |-> list_parser,
        choices |-> choices, save_parser |-> save_parser,
        default |-> process_value(d, default, TRUE).v,
        has_value |-> FALSE, value |-> NoneV]

\* Kwarg.defaulted
defaulted(k) == ~k.has_value

\* Kwarg.value
KwargValue(k) == IF k.has_value THEN k.value ELSE k.default

\* a value setter for which None is a value like any other
KwargSetValueStoringNone(k, v) ==
    LET r == process_value(k, v, TRUE)
    IN [kwarg |-> IF r.ok THEN [k EXCEPT !.has_value = TRUE, !.value = r.v] ELSE k,
        exc |-> r.exc]

\* Kwarg.value setter: None deletes the value, anything else is parsed and
\* stored; the Kwarg afterwards and what was raised
KwargSetValue(k, v) ==
    IF v = NoneV
    THEN [kwarg |-> [k EXCEPT !.has_value = FALSE, !.value = NoneV], exc |-> "none"]
    ELSE LET r == process_value(k, v, FALSE)
         IN [kwarg |-> IF r.ok THEN [k EXCEPT !.has_value = TRUE, !.value = r.v] ELSE k,
             exc |-> r.exc]

\* Kwarg.value_to_save
kwarg_value_to_save(k) ==
    IF k.save_parser = "None" \/ KwargValue(k) = NoneV THEN KwargValue(k)
    ELSE ApplyParser(k.save_parser, KwargValue(k)).v

(***************************************************************************)
(* Paths and the file system.  A path is absolute or relative to the       *)
(* working directory; NoPath is None.                                      *)
(***************************************************************************)
NoPath == [nil |-> TRUE, abs |-> FALSE, parts |-> <<>>]

Path(abs, parts) == [nil |-> FALSE, abs |-> abs, parts |-> parts]

\* str(p), read back as a path: str(None) is the string 'None'
PathStr(p) == IF p.nil THEN Path(FALSE, <<"None">>) ELSE p

\* Path(p).absolute() with the working directory cwd
Absolute(p, cwd) == IF p.abs THEN p ELSE Path(TRUE, cwd.parts \o p.parts)

\* lib / layer_dir.name
JoinName(lib, layer_dir) == Path(lib.abs, lib.parts \o <<layer_dir.parts[Len(layer_dir.parts)]>>)

(***************************************************************************)
(* Layers (layer.py).  A layer definition is what layer.py in a layer      *)
(* directory declares; a Layer instance binds it to the directory.         *)
(***************************************************************************)
LayerDef(name, model_aware, args) ==
    [name |-> name, model_aware |-> model_aware, args |-> args, kwargs |-> <<>>]

\* a layer definition with keyword arguments
LayerDefKw(name, model_aware, args, kwargs) ==
    [name |-> name, model_aware |-> model_aware, args |-> args, kwargs |-> kwargs]

NoDef == LayerDef("", FALSE, <<>>)

\* Layer.__init__ for a directory holding the definition def
LayerNew(layer_dir, def) ==
    [py |-> "Layer", layer_dir |-> layer_dir, layer |-> def, args |-> def.args,
     kwargs |-> def.kwargs, args_mode |-> "DESC", kwargs_mode |-> "DESC"]

\* Layer.runnable
LayerRunnable(layer) == ArgListSet(layer.args)

(***************************************************************************)
(* Stack (stack.py)                                                        *)
(***************************************************************************)
RECURSIVE RunnableFrom(_, _)
\* the loop of Stack.runnable from layer i on: the first layer that is not
\* runnable returns False
RunnableFrom(layers, i) ==
    IF i > Len(layers) THEN TRUE
    ELSE IF ~LayerRunnable(layers[i]) THEN FALSE
    ELSE RunnableFrom(layers, i + 1)

\* Stack.runnable without its test of run_dir
RunnableWithoutRunDir(stk) == RunnableFrom(stk.layers, 1)

\* Stack.runnable
runnable(stk) == IF stk.run_dir.nil THEN FALSE ELSE RunnableFrom(stk.layers, 1)

\* ArgJson with the test of arg.set inverted
ArgJsonInverted(a) == [name |-> a.name, value |-> IF ArgSet(a) THEN NoneV ELSE value_to_save(a)]

\* one entry of json 'args'
ArgJson(a) == [name |-> a.name, value |-> IF ArgSet(a) THEN value_to_save(a) ELSE NoneV]

\* one entry of json 'kwargs'
KwargJson(k) == [name |-> k.name, value |-> kwarg_value_to_save(k)]

\* one entry of json 'layers'
LayerJson(layer) ==
    [name |-> layer.layer.name, layer_dir |-> PathStr(layer.layer_dir),
     args |-> [i \in 1..Len(layer.args) |-> ArgJson(layer.args[i])],
     kwargs |-> [i \in 1..Len(layer.kwargs) |-> KwargJson(layer.kwargs[i])]]

\* Stack._json_data: the document written
json_data(stk) ==
    [run_dir |-> PathStr(stk.run_dir), model |-> stk.model,
     layers |-> [i \in 1..Len(stk.layers) |-> LayerJson(stk.layers[i])]]

\* Stack._json_data: the Stack afterwards (both containers are put in DESC mode)
AfterJson(stk) ==
    [stk EXCEPT !.layers = [i \in 1..Len(stk.layers) |->
        [stk.layers[i] EXCEPT !.args_mode = "DESC", !.kwargs_mode = "DESC"]]]

(***************************************************************************)
(* Stack.load: the file system, the layer directory search, and the        *)
(* reconciliation of the serialized arguments with the live descriptors.   *)
(* Indices are 1-based here; 0 stands for None in serialized_to_actual_map.*)
(***************************************************************************)
Absent == [kind |-> "absent", def |-> NoDef]

PlainDir == [kind |-> "dir", def |-> NoDef]

LayerDir(def) == [kind |-> "layer", def |-> def]

\* Path.exists() on the file system fs (a function from paths to entries)
Exists(fs, p) == p \in DOMAIN fs /\ fs[p].kind # "absent"

NoLibs == [has |-> FALSE, dirs |-> <<>>]

Libs(dirs) == [has |-> TRUE, dirs |-> dirs]

RECURSIVE LayerDirFrom(_, _, _, _)
\* the loop of Stack.get_layer_dir from library directory i on
LayerDirFrom(fs, layer_dir, dirs, i) ==
    IF i > Len(dirs) THEN NoPath
    ELSE IF Exists(fs, dirs[i]) THEN JoinName(dirs[i], layer_dir)
    ELSE LayerDirFrom(fs, layer_dir, dirs, i + 1)

\* Stack.get_layer_dir: original_preferred is not read
get_layer_dir(fs, layer_dir, dirs, original_preferred) == LayerDirFrom(fs, layer_dir, dirs, 1)

\* the layer directory Stack.load constructs the Layer from
LoadLayerDir(fs, layer_dir, libs, original_preferred) ==
    IF libs.has /\ ~original_preferred
    THEN get_layer_dir(fs, layer_dir, libs.dirs, original_preferred)
    ELSE layer_dir

\* Layer(layer_dir): a directory without layer.py cannot be loaded; Path(None) raises
LayerOpen(fs, layer_dir) ==
    IF layer_dir.nil THEN Raise("TypeError")
    ELSE IF layer_dir \in DOMAIN fs /\ fs[layer_dir].kind = "layer" THEN Ok(NoneV)
    ELSE Raise("FileNotFoundError")

\* name in actual_args
NameIn(largs, name) == \E j \in 1..Len(largs) : largs[j].name = name

\* actual_args[name]: a later descriptor of the same name overwrites an earlier one
ActualIndex(largs, name) ==
    CHOOSE j \in 1..Len(largs) :
        largs[j].name = name /\ \A k \in 1..Len(largs) : largs[k].name = name => k <= j

RECURSIVE MatchByIndexOnly(_, _, _, _)
\* MatchByName without its second test: a moved argument is not looked up by name
MatchByIndexOnly(sargs, largs, i, st) ==
    IF i > Len(sargs) THEN st
    ELSE IF i <= Len(largs) /\ i \notin st.assigned /\ largs[i].name = sargs[i].name
    THEN MatchByIndexOnly(sargs, largs, i + 1,
                          [st EXCEPT !.map = Append(@, i), !.assigned = @ \cup {i}])
    ELSE MatchByIndexOnly(sargs, largs, i + 1,
                          [st EXCEPT !.map = Append(@, 0), !.unassigned = Append(@, i)])

RECURSIVE MatchByName(_, _, _, _)
\* the first loop of the reconciliation: same index and name, else same name
MatchByName(sargs, largs, i, st) ==
    IF i > Len(sargs) THEN st
    ELSE IF i <= Len(largs) /\ i \notin st.assigned /\ largs[i].name = sargs[i].name
    THEN MatchByName(sargs, largs, i + 1,
                     [st EXCEPT !.map = Append(@, i), !.assigned = @ \cup {i}])
    ELSE IF NameIn(largs, sargs[i].name) /\ ActualIndex(largs, sargs[i].name) \notin st.assigned
    THEN MatchByName(sargs, largs, i + 1,
                     [st EXCEPT !.map = Append(@, ActualIndex(largs, sargs[i].name)),
                                !.assigned = @ \cup {ActualIndex(largs, sargs[i].name)}])
    ELSE MatchByName(sargs, largs, i + 1,
                     [st EXCEPT !.map = Append(@, 0), !.unassigned = Append(@, i)])

RECURSIVE MatchByPositionTaken(_, _, _)
\* MatchByPosition without its test of assigned_args
MatchByPositionTaken(largs, us, st) ==
    IF us = <<>> THEN st
    ELSE IF Head(us) <= Len(largs)
    THEN MatchByPositionTaken(largs, Tail(us),
                              [st EXCEPT !.map[Head(us)] = Head(us), !.assigned = @ \cup {Head(us)}])
    ELSE MatchByPositionTaken(largs, Tail(us), st)

RECURSIVE MatchByPosition(_, _, _)
\* the second loop: an argument without a name match takes the descriptor at
\* its own index when that one is still free
MatchByPosition(largs, us, st) ==
    IF us = <<>> THEN st
    ELSE IF Head(us) <= Len(largs) /\ Head(us) \notin st.assigned
    THEN MatchByPosition(largs, Tail(us),
                         [st EXCEPT !.map[Head(us)] = Head(us), !.assigned = @ \cup {Head(us)}])
    ELSE MatchByPosition(largs, Tail(us), st)

\* serialized_to_actual_map of one layer
serialized_to_actual_map(sargs, largs) ==
    LET st1 == MatchByName(sargs, largs, 1, [map |-> <<>>, assigned |-> {}, unassigned |-> <<>>])
    IN MatchByPosition(largs, st1.unassigned, st1).map

RECURSIVE ApplyValuesUntilFailure(_, _, _, _)
\* ApplyValues without its try / except: the first exception of a setter
\* ends the loop
ApplyValuesUntilFailure(sargs, map, i, largs) ==
    IF i > Len(map) THEN largs
    ELSE IF map[i] = 0 THEN ApplyValuesUntilFailure(sargs, map, i + 1, largs)
    ELSE IF ArgSetValue(largs[map[i]], sargs[i].value).exc # "none" THEN largs
    ELSE ApplyValuesUntilFailure(sargs, map, i + 1,
                     [largs EXCEPT ![map[i]] = ArgSetValue(largs[map[i]], sargs[i].value).arg])

RECURSIVE ApplyValues(_, _, _, _)
\* layer.args[j].value = json_layer['args'][i]['value'] for each mapped i; an
\* exception of the setter is logged and the descriptor is left as it was
ApplyValues(sargs, map, i, largs) ==
    IF i > Len(map) THEN largs
    ELSE IF map[i] = 0 THEN ApplyValues(sargs, map, i + 1, largs)
    ELSE ApplyValues(sargs, map, i + 1,
                     [largs EXCEPT ![map[i]] = ArgSetValue(largs[map[i]], sargs[i].value).arg])

RECURSIVE ApplyKwargs(_, _, _)
\* layer.kwargs[name].value = kwarg['value'] for each serialized name that
\* the layer still has; an exception of the setter is logged
ApplyKwargs(skwargs, i, lkwargs) ==
    IF i > Len(skwargs) THEN lkwargs
    ELSE LET js == {j \in 1..Len(lkwargs) : lkwargs[j].name = skwargs[i].name}
         IN IF js = {} THEN ApplyKwargs(skwargs, i + 1, lkwargs)
            ELSE LET j == CHOOSE j \in js : TRUE
                 IN ApplyKwargs(skwargs, i + 1,
                        [lkwargs EXCEPT ![j] = KwargSetValue(lkwargs[j], skwargs[i].value).kwarg])

\* one layer of Stack.load, given the directory it was resolved to
LoadLayer(fs, json_layer, layer_dir) ==
    LET fresh == LayerNew(layer_dir, fs[layer_dir].def)
        map == serialized_to_actual_map(json_layer.args, fresh.args)
    IN [fresh EXCEPT !.args = ApplyValues(json_layer.args, map, 1, fresh.args),
                     !.kwargs = ApplyKwargs(json_layer.kwargs, 1, fresh.kwargs)]

\* Stack.__init__ with layers that are all Layer instances
StackNew(layers, run_dir, model) == [layers |-> layers, run_dir |-> run_dir, model |-> model]

NoModel == [kind |-> "none", id |-> 0]

\* Stack.load: the Stack returned, or the exception of the first layer that
\* cannot be constructed
StackLoad(fs, json, libs, original_preferred) ==
    LET dirs == [i \in 1..Len(json.layers) |->
                    LoadLayerDir(fs, json.layers[i].layer_dir, libs, original_preferred)]
        bad == {i \in 1..Len(json.layers) : ~LayerOpen(fs, dirs[i]).ok}
    IN IF bad # {}
       THEN [ok |-> FALSE, exc |-> LayerOpen(fs, dirs[CHOOSE i \in bad : \A j \in bad : i <= j]).exc,
             stack |-> StackNew(<<>>, NoPath, NoModel), maps |-> <<>>]
       ELSE [ok |-> TRUE, exc |-> "none",
             stack |-> StackNew([i \in 1..Len(json.layers) |-> LoadLayer(fs, json.layers[i], dirs[i])],
                                json.run_dir, json.model),
             maps |-> [i \in 1..Len(json.layers) |->
                          serialized_to_actual_map(json.layers[i].args, fs[dirs[i]].def.args)]]

(***************************************************************************)
(* State.  fs: the file system (layer and library directories); cwd: the   *)
(* process working directory; stack: the Stack object the caller holds;    *)
(* file: the stack .json document on disk; err: the exception class the    *)
(* last operation raised ("none" when it returned); last: the last         *)
(* operation the caller performed; saved: the Stack and file system as     *)
(* they were when Stack.save was called; load_map: serialized_to_actual_map*)
(* of each layer of the last Stack.load; run: the locals of Stack.run; ret: *)
(* the last call of a class method, with what it returned.                 *)
(***************************************************************************)
VARIABLES fs, cwd, stack, file, err, last, saved, load_map, run, ret, short_names

vars == <<fs, cwd, stack, file, err, last, saved, load_map, run, ret, short_names>>

\* the longest positional argument list of a layer definition
MaxArgs == 2

Home == Path(TRUE, <<"home">>)

LayerPath == Path(TRUE, <<"lib", "la">>)

NoFile == [run_dir |-> NoPath, model |-> NoModel, layers |-> <<>>]

EmptyStack == StackNew(<<>>, NoPath, NoModel)

NotRunning == [pc |-> "idle"]

NoCall == [method |-> "none"]

\* the lists of short names of a process that has derived none: the list a
\* caller holds, and the lists that are the default of the parameter
\* short_names of get_short_name and of KwargDict.add_arguments
NoShortNames == [given |-> <<>>, default |-> <<>>, add_default |-> <<>>]

\* the values of last while the caller edits the Stack it holds
Editing == {"new", "edit", "construct", "append", "insert", "setitem", "delitem", "run_dir",
            "mode", "put", "value", "Layer"}

\* descriptors of the layer definitions: a plain scalar, the list of str of
\* test_list_args, an int saved as str, and a scalar parsed by len under the
\* name of the first
DescPool == {Arg("X", NoneV, "None", "None", NoChoices, "None"),
             Arg("Y", StrV(<<"+">>), "str", "None", NoChoices, "None"),
             Arg("Z", NoneV, "int", "None", NoChoices, "str"),
             Arg("X", NoneV, "len", "None", NoChoices, "None")}

\* the values a caller assigns
RawValues == {NoneV, IntV(1), StrV(<<"1", "2">>), ListV(<<IntV(1), IntV(2)>>)}

\* the argument lists of the layer definitions: distinct descriptors
ArgLists == {a \in UNION {[1..k -> DescPool] : k \in 0..MaxArgs} :
                \A i, j \in DOMAIN a : a[i] = a[j] => i = j}

\* the keyword arguments of the layer definitions: one keyword k, a plain
\* string or an int parsed by int
KwargLists == {<<Kwarg("k", StrV(<<"a">>), NoneV, "None", "None", NoChoices, "None")>>,
               <<Kwarg("k", IntV(0), NoneV, "int", "None", NoChoices, "None")>>}

LoadDefs == {LayerDefKw("la", FALSE, a, k) : a \in ArgLists, k \in KwargLists}

\* a Stack of one Layer loaded from LayerPath
InitLoad ==
    /\ \E def \in LoadDefs :
          /\ fs = (LayerPath :> LayerDir(def))
          /\ stack = StackNew(<<LayerNew(LayerPath, def)>>, NoPath, NoModel)
    /\ cwd = Home
    /\ file = NoFile
    /\ err = "none"
    /\ last = "new"
    /\ saved = [stack |-> EmptyStack, fs |-> <<>>]
    /\ load_map = <<>>
    /\ run = NotRunning
    /\ ret = NoCall
    /\ short_names = NoShortNames

\* Stack.set_arg_mode
SetArgMode(mode) ==
    /\ last \in Editing
    /\ stack' = [stack EXCEPT !.layers = [i \in 1..Len(stack.layers) |->
                    [stack.layers[i] EXCEPT !.args_mode = mode, !.kwargs_mode = mode]]]
    /\ err' = "none"
    /\ last' = "edit"
    /\ UNCHANGED <<fs, cwd, file, saved, load_map, short_names, run, ret>>

\* stack[l].args[i] = v
ArgSetItem(l, i, v) ==
    /\ last \in Editing
    /\ l \in 1..Len(stack.layers)
    /\ i \in 1..Len(stack.layers[l].args)
    /\ LET r == ArgListSetItem(stack.layers[l].args, stack.layers[l].args_mode, i, v)
       IN /\ err' = r.exc
          /\ stack' = [stack EXCEPT !.layers[l].args = r.args]
    /\ last' = "edit"
    /\ UNCHANGED <<fs, cwd, file, saved, load_map, short_names, run, ret>>

\* Stack.save
Save ==
    /\ last \in {"new", "edit"}
    /\ file' = json_data(stack)
    /\ stack' = AfterJson(stack)
    /\ saved' = [stack |-> stack, fs |-> fs]
    /\ err' = "none"
    /\ last' = "save"
    /\ UNCHANGED <<fs, cwd, load_map, short_names, run, ret>>

\* layer.py of the layer directory is edited after the Stack was saved
Redefine(def) ==
    /\ last = "save"
    /\ fs[LayerPath].def # def
    /\ fs' = [fs EXCEPT ![LayerPath] = LayerDir(def)]
    /\ last' = "redefine"
    /\ UNCHANGED <<cwd, stack, file, err, saved, load_map, short_names, run, ret>>

\* stack = Stack.load(file, layer_library_dir, original_layer_dir_preferred)
Load(libs, original_preferred) ==
    /\ last \in {"save", "redefine"}
    /\ LET r == StackLoad(fs, file, libs, original_preferred)
       IN /\ err' = r.exc
          /\ stack' = IF r.ok THEN r.stack ELSE stack
          /\ load_map' = r.maps
    /\ ret' = [method |-> "load", libs |-> libs, original_preferred |-> original_preferred]
    /\ last' = "load"
    /\ UNCHANGED <<fs, cwd, file, saved, run, short_names>>

NextLoad ==
    \/ \E mode \in {"DESC", "USE"} : SetArgMode(mode)
    \/ \E i \in 1..MaxArgs, v \in RawValues : ArgSetItem(1, i, v)
    \/ Save
    \/ \E def \in LoadDefs : Redefine(def)
    \/ Load(NoLibs, TRUE)

\* save, a change of the layer definition, load
SpecLoad == InitLoad /\ [][NextLoad]_vars

(***************************************************************************)
(* Save / load round trip and reconciliation                               *)
(***************************************************************************)
\* ArgList.__getitem__ in USE mode: the value, or the AttributeError of an
\* Arg whose value was never set
ArgListGetUse(args, i) == IF args[i].has_value THEN Ok(args[i].value) ELSE Raise("AttributeError")

UniqueNames(args) == \A i, j \in 1..Len(args) : args[i].name = args[j].name => i = j

\* parsing the saved form of a's value gives a's value again
ReparseStable(a) == process_value(a, value_to_save(a), FALSE) = Ok(a.value)

\* the live Stack has, at layer l and index i, an Arg that reads v in USE mode
ReadsBack(l, i, v) ==
    /\ l <= Len(stack.layers)
    /\ i <= Len(stack.layers[l].args)
    /\ ArgListGetUse(stack.layers[l].args, i) = Ok(v)

\* C1 as stated: with the layer definitions unchanged between save and load,
\* every positional argument set to v before the save reads v in USE mode on
\* the loaded Stack.
C1_RoundTripAnyParser ==
    (last = "load" /\ fs = saved.fs) =>
        \A l \in 1..Len(saved.stack.layers) :
            \A i \in 1..Len(saved.stack.layers[l].args) :
                ArgSet(saved.stack.layers[l].args[i]) =>
                    ReadsBack(l, i, saved.stack.layers[l].args[i].value)

\* C1 amended: with the layer definitions unchanged between save and load,
\* every positional argument set to v before the save, whose parser and
\* list_parser give v again when applied to the saved form of v, reads v in
\* USE mode on the loaded Stack.
C1_RoundTripStableParser ==
    (last = "load" /\ fs = saved.fs) =>
        \A l \in 1..Len(saved.stack.layers) :
            \A i \in 1..Len(saved.stack.layers[l].args) :
                (ArgSet(saved.stack.layers[l].args[i]) /\ ReparseStable(saved.stack.layers[l].args[i])) =>
                    ReadsBack(l, i, saved.stack.layers[l].args[i].value)

\* a Stack saved with the list argument of test_list_args set was loaded from
\* the unchanged layer, and the argument reads the list it was set to
C1_Witness ==
    /\ last = "load"
    /\ fs = saved.fs
    /\ \E i \in 1..Len(saved.stack.layers[1].args) :
          /\ saved.stack.layers[1].args[i].name = "Y"
          /\ saved.stack.layers[1].args[i].has_value
          /\ saved.stack.layers[1].args[i].value = ListV(<<StrV(<<"1">>), StrV(<<"2">>)>>)
          /\ ReadsBack(1, i, ListV(<<StrV(<<"1">>), StrV(<<"2">>)>>))

\* the index of the descriptor named name, in a list of unique names
IndexOfName(args, name) == CHOOSE j \in 1..Len(args) : args[j].name = name

\* the serialized argument i of layer l was applied to the live descriptor j:
\* the map says so, and the descriptor is what its setter makes of the value
AppliedTo(l, i, j) ==
    /\ load_map[l][i] = j
    /\ stack.layers[l].args[j] =
          ArgSetValue(fs[stack.layers[l].layer_dir].def.args[j], file.layers[l].args[i].value).arg

\* C2 as stated: for any serialized list and any live list with unique names,
\* every serialized argument whose name is in the live list is applied to the
\* live descriptor of that name.
C2_ByNameAnySerialized ==
    (last = "load" /\ err = "none") =>
        \A l \in 1..Len(file.layers) :
            UniqueNames(stack.layers[l].args) =>
                \A i \in 1..Len(file.layers[l].args) :
                    NameIn(stack.layers[l].args, file.layers[l].args[i].name) =>
                        AppliedTo(l, i, IndexOfName(stack.layers[l].args, file.layers[l].args[i].name))

\* C2 amended: for any serialized list with unique names and any live list
\* with unique names, every serialized argument whose name is in the live
\* list is applied to the live descriptor of that name, whatever the indices.
C2_ByNameUniqueSerialized ==
    (last = "load" /\ err = "none") =>
        \A l \in 1..Len(file.layers) :
            (UniqueNames(stack.layers[l].args) /\ UniqueNames(file.layers[l].args)) =>
                \A i \in 1..Len(file.layers[l].args) :
                    NameIn(stack.layers[l].args, file.layers[l].args[i].name) =>
                        AppliedTo(l, i, IndexOfName(stack.layers[l].args, file.layers[l].args[i].name))

\* serialized [X, Y] was loaded against live [Y, X]: both moved, and the
\* value of the first serialized argument is on the second live descriptor
C2_Witness ==
    /\ last = "load"
    /\ Len(file.layers) = 1
    /\ Len(file.layers[1].args) = 2
    /\ Len(stack.layers[1].args) = 2
    /\ UniqueNames(file.layers[1].args)
    /\ file.layers[1].args[1].name = stack.layers[1].args[2].name
    /\ file.layers[1].args[2].name = stack.layers[1].args[1].name
    /\ load_map[1] = <<2, 1>>
    /\ file.layers[1].args[1].value # NoneV
    /\ ArgListGetUse(stack.layers[1].args, 2) = Ok(file.layers[1].args[1].value)

\* the descriptor j of the definition the layer l was loaded from, as
\* Layer.__init__ makes it
FreshArg(l, j) == fs[stack.layers[l].layer_dir].def.args[j]

FreshKwarg(l, j) == fs[stack.layers[l].layer_dir].def.kwargs[j]

\* the serialized arguments of layer l that the plan assigns to descriptor j
SerializedFor(l, j) == {i \in 1..Len(load_map[l]) : load_map[l][i] = j}

\* the serialized keyword arguments of layer l named as the live Kwarg j
SerializedKwFor(l, j) ==
    {i \in 1..Len(file.layers[l].kwargs) :
        file.layers[l].kwargs[i].name = stack.layers[l].kwargs[j].name}

MaxRunLayers == 3

ModelObj(id) == [kind |-> "obj", id |-> id]

\* Stack.model as a str: the path of a serialized model
ModelRef == [kind |-> "path", id |-> 0]

ModelFile == Path(FALSE, <<"m.json">>)

FileEntry == [kind |-> "file", def |-> NoDef]

OutAbs == Path(TRUE, <<"home", "out">>)

OutRel == Path(FALSE, <<"out">>)

GoneOut == Path(TRUE, <<"gone", "out">>)

SaveRel == Path(FALSE, <<"saved.json">>)

\* path.parent
Parent(p) == Path(p.abs, SubSeq(p.parts, 1, Len(p.parts) - 1))

\* path / name
Join(p, name) == Path(p.abs, Append(p.parts, name))

\* what an entry point or a hook does: it returns v, or raises exc
Returns(v) == [raises |-> FALSE, v |-> v, exc |-> "none"]

Raises(e) == [raises |-> TRUE, v |-> NoModel, exc |-> e]

EntryOutcomes == {Returns(NoModel), Returns(ModelObj(1)), Returns(ModelObj(2)), Raises("ValueError")}

HookOutcomes == {Returns(NoModel), Raises("OSError")}

\* an except clause that re-raises without os.chdir(old_cur_dir)
CwdNotRestored(old_cur_dir) == cwd

\* the working directory after the except clause of run
CwdAfterExcept(old_cur_dir) == old_cur_dir

\* save_path handed on without Path.absolute()
SavePathAsGiven(save_path, cwd_at_call) == save_path

\* save_path as the save hook gets it: made absolute before the chdir
SavePathAbsolute(save_path, cwd_at_call) ==
    IF save_path.nil THEN NoPath ELSE Absolute(save_path, cwd_at_call)

\* a loop that hands every layer what the layer before it returned
ModelOfLastCall(stk) ==
    IF run.calls = <<>> THEN stk.model ELSE run.calls[Len(run.calls)].did.v

\* the model argument of layer.run_layer for a model-aware layer
ModelGiven(stk) == stk.model

\* run leaves by an exception raised at pc `at`; inside the try block the
\* except clause changes back to old_cur_dir first
RunRaise(e, at, in_try) ==
    /\ run' = [run EXCEPT !.pc = "raised", !.exc = e, !.at = at]
    /\ cwd' = IF in_try THEN CwdAfterExcept(run.old_cur_dir) ELSE cwd

\* run returns: the last statements of the try block
RunReturn ==
    /\ run' = [run EXCEPT !.pc = "returned"]
    /\ cwd' = run.old_cur_dir

\* where run goes on once the log and the archive are written
PcOfTry(model_path) == IF model_path.nil THEN "layer" ELSE "load_model"

\* stack.run(save_path=save_path, archive=archive), up to os.chdir(run_dir)
RunCall(save_path, archive) ==
    /\ last = "new"
    /\ run.pc = "idle"
    /\ last' = "run"
    /\ LET r0 == [pc |-> "called", i |-> 1, old_cur_dir |-> NoPath, model_path |-> NoPath,
                  save_path |-> NoPath, archive |-> archive, result |-> NoModel,
                  cwd0 |-> cwd, fs0 |-> fs, runnable0 |-> runnable(stack),
                  save_arg |-> save_path, model0 |-> stack.model,
                  calls |-> <<>>, saves |-> <<>>, exc |-> "none", at |-> "none"]
           run_dir == Absolute(stack.run_dir, cwd)
           model_abs == Absolute(ModelFile, cwd)
       IN IF stack.layers = <<>>
          THEN /\ run' = [r0 EXCEPT !.pc = "raised", !.exc = "IndexError", !.at = "called"]
               /\ UNCHANGED <<fs, cwd>>
          ELSE IF ~runnable(stack)
          THEN /\ run' = [r0 EXCEPT !.pc = "raised", !.exc = "LayerStackError", !.at = "called"]
               /\ UNCHANGED <<fs, cwd>>
          ELSE IF ~Exists(fs, run_dir) /\ ~Exists(fs, Parent(run_dir))
          THEN /\ run' = [r0 EXCEPT !.pc = "raised", !.exc = "FileNotFoundError", !.at = "mkdir"]
               /\ UNCHANGED <<fs, cwd>>
          ELSE /\ fs' = IF Exists(fs, run_dir) THEN fs ELSE (run_dir :> PlainDir) @@ fs
               /\ cwd' = run_dir
               /\ run' = [r0 EXCEPT !.pc = "log", !.old_cur_dir = cwd,
                             !.model_path = IF stack.model.kind = "path" /\ Exists(fs, model_abs)
                                            THEN model_abs ELSE NoPath,
                             !.save_path = SavePathAbsolute(save_path, cwd)]
    /\ UNCHANGED <<stack, file, err, saved, load_map, short_names, ret>>

\* start_file_log('stack.log'): outside the try block
StartFileLog(o) ==
    /\ run.pc = "log"
    /\ IF o.raises
       THEN /\ RunRaise(o.exc, "log", FALSE)
            /\ fs' = fs
       ELSE /\ run' = [run EXCEPT !.pc = IF run.archive THEN "archive" ELSE PcOfTry(run.model_path)]
            /\ fs' = (Join(cwd, "stack.log") :> FileEntry) @@ fs
            /\ cwd' = cwd
    /\ UNCHANGED <<stack, file, err, last, saved, load_map, short_names, ret>>

\* self.archive(): outside the try block; stack.archive is opened under
\* run_dir as given, from inside run_dir
Archive(o) ==
    /\ run.pc = "archive"
    /\ stack' = AfterJson(stack)
    /\ IF ~Exists(fs, Absolute(stack.run_dir, cwd))
       THEN /\ RunRaise("FileNotFoundError", "archive", FALSE)
            /\ fs' = fs
       ELSE IF o.raises
       THEN /\ RunRaise(o.exc, "archive", FALSE)
            /\ fs' = fs
       ELSE /\ run' = [run EXCEPT !.pc = PcOfTry(run.model_path)]
            /\ fs' = (Join(Absolute(stack.run_dir, cwd), "stack.archive") :> FileEntry) @@ fs
            /\ cwd' = cwd
    /\ UNCHANGED <<file, err, last, saved, load_map, short_names, ret>>

\* the model is loaded and checked by the hooks of the first layer
LoadModel(load, check) ==
    /\ run.pc = "load_model"
    /\ IF ~stack.layers[1].layer.model_aware
       THEN /\ RunRaise("LayerStackError", "load_model", TRUE)
            /\ stack' = stack
       ELSE IF load.raises
       THEN /\ RunRaise(load.exc, "load_model", TRUE)
            /\ stack' = stack
       ELSE /\ stack' = [stack EXCEPT !.model = ModelObj(3)]
            /\ IF check.raises
               THEN RunRaise("TypeError", "load_model", TRUE)
               ELSE /\ run' = [run EXCEPT !.pc = "layer", !.model0 = ModelObj(3)]
                    /\ cwd' = cwd
    /\ UNCHANGED <<fs, file, err, last, saved, load_map, short_names, ret>>

\* Layer.run_layer: both containers go to USE mode, then the entry point runs
InUse(layer) == [layer EXCEPT !.args_mode = "USE", !.kwargs_mode = "USE"]

\* one turn of the loop over the layers; after the last one, without a
\* save_path, run returns
RunLayer(o) ==
    /\ run.pc = "layer"
    /\ LET layer == stack.layers[run.i]
           aware == layer.layer.model_aware
           call == [layer |-> run.i, aware |-> aware,
                    model |-> IF aware THEN ModelGiven(stack) ELSE NoModel, did |-> o]
           more == run.i < Len(stack.layers)
       IN IF aware /\ stack.model = NoModel
          THEN /\ RunRaise("LayerStackError", "layer", TRUE)
               /\ stack' = stack
          ELSE IF o.raises
          THEN /\ run' = [run EXCEPT !.pc = "raised", !.exc = o.exc, !.at = "layer",
                                     !.calls = Append(@, call)]
               /\ cwd' = CwdAfterExcept(run.old_cur_dir)
               /\ stack' = [stack EXCEPT !.layers[run.i] = InUse(@)]
          ELSE /\ stack' = [stack EXCEPT !.layers[run.i] = InUse(@),
                                         !.model = IF aware THEN o.v ELSE @]
               /\ run' = [run EXCEPT !.i = @ + 1,
                                     !.calls = Append(@, call),
                                     !.result = IF aware THEN @ ELSE o.v,
                                     !.pc = IF more THEN "layer"
                                            ELSE IF run.save_path.nil THEN "returned" ELSE "save"]
               /\ cwd' = IF ~more /\ run.save_path.nil THEN run.old_cur_dir ELSE cwd
    /\ UNCHANGED <<fs, file, err, last, saved, load_map, short_names, ret>>

\* the save hook of the last layer, then run returns
SaveModel(o) ==
    /\ run.pc = "save"
    /\ IF ~stack.layers[Len(stack.layers)].layer.model_aware
       THEN RunRaise("LayerStackError", "save", TRUE)
       ELSE IF o.raises
       THEN /\ run' = [run EXCEPT !.pc = "raised", !.exc = o.exc, !.at = "save",
                                  !.saves = Append(@, [model |-> stack.model, path |-> run.save_path])]
            /\ cwd' = CwdAfterExcept(run.old_cur_dir)
       ELSE /\ run' = [run EXCEPT !.pc = "returned",
                                  !.saves = Append(@, [model |-> stack.model, path |-> run.save_path])]
            /\ cwd' = run.old_cur_dir
    /\ UNCHANGED <<fs, stack, file, err, last, saved, load_map, short_names, ret>>

\* the layers of the Stacks that are run: a layer without a model, a
\* model-aware layer, and a layer whose argument is not set
RunLayers ==
    {LayerNew(LayerPath, LayerDef("plain", FALSE, <<>>)),
     LayerNew(LayerPath, LayerDef("model", TRUE, <<>>)),
     LayerNew(LayerPath, LayerDef("unset", FALSE, <<Arg("X", NoneV, "None", "None", NoChoices, "None")>>))}

InitRun ==
    /\ \E layers \in UNION {[1..k -> RunLayers] : k \in 0..MaxRunLayers},
          run_dir \in {NoPath, OutAbs, OutRel, GoneOut},
          model \in {NoModel, ModelRef, ModelObj(0)} :
          stack = StackNew(layers, run_dir, model)
    /\ \E out \in {Absent, PlainDir}, m \in {Absent, FileEntry} :
          fs = (Home :> PlainDir) @@ (OutAbs :> out) @@ (Absolute(ModelFile, Home) :> m)
    /\ cwd = Home
    /\ file = NoFile
    /\ err = "none"
    /\ last = "new"
    /\ saved = [stack |-> EmptyStack, fs |-> <<>>]
    /\ load_map = <<>>
    /\ run = NotRunning
    /\ ret = NoCall
    /\ short_names = NoShortNames

NextRun ==
    \/ \E save_path \in {NoPath, SaveRel}, archive \in BOOLEAN : RunCall(save_path, archive)
    \/ \E o \in HookOutcomes : StartFileLog(o)
    \/ \E o \in HookOutcomes : Archive(o)
    \/ \E load, check \in HookOutcomes : LoadModel(load, check)
    \/ \E o \in EntryOutcomes : RunLayer(o)
    \/ \E o \in HookOutcomes : SaveModel(o)

\* one call of Stack.run
SpecRun == InitRun /\ [][NextRun]_vars

Exited == run.pc \in {"returned", "raised"}

\* the last call of an entry point raised
LastCallRaised == run.calls # <<>> /\ run.calls[Len(run.calls)].did.raises

\* C3: when the entry point of a layer raises during run, run leaves with
\* the working directory it was called in and with that same exception.
C3_LayerRaiseRestoresCwd ==
    (run.pc = "raised" /\ LastCallRaised)
        => /\ cwd = run.cwd0
           /\ run.exc = run.calls[Len(run.calls)].did.exc

\* the second layer raised, after run had changed into run_dir
C3_Witness ==
    /\ run.pc = "raised"
    /\ Len(run.calls) = 2
    /\ LastCallRaised
    /\ run.old_cur_dir = run.cwd0
    /\ Absolute(stack.run_dir, run.cwd0) # run.cwd0

\* C4: on every exit of run after it changed into run_dir, whether it
\* returned or raised, the working directory is the one from before.
C4_CwdRestoredOnEveryExit ==
    (Exited /\ ~run.old_cur_dir.nil) => cwd = run.old_cur_dir

\* C5: run on a Stack that is not runnable raises LayerStackError, with no
\* layer invoked, no directory created and no change of working directory.
C5_NotRunnableRaisesLayerStackError ==
    (run.pc # "idle" /\ ~run.runnable0)
        => /\ run.pc = "raised"
           /\ run.exc = "LayerStackError"
           /\ run.calls = <<>>
           /\ fs = run.fs0
           /\ cwd = run.cwd0
           /\ run.old_cur_dir.nil

\* the model a model-aware k-th call is to be given: what the closest
\* model-aware call before it returned, or model0
ModelBefore(k) ==
    LET js == {j \in 1..(k - 1) : run.calls[j].aware}
    IN IF js = {} THEN run.model0
       ELSE run.calls[CHOOSE j \in js : \A h \in js : h <= j].did.v

\* what the last model-less call that returned gave back, None without one
ResultOfCalls ==
    LET js == {j \in 1..Len(run.calls) : ~run.calls[j].aware /\ ~run.calls[j].did.raises}
    IN IF js = {} THEN NoModel
       ELSE run.calls[CHOOSE j \in js : \A h \in js : h <= j].did.v

\* C6: run invokes the layers in Stack order, each at most once and each
\* after the one before it returned; a model-aware layer is given what the
\* closest model-aware layer before it returned (the initial model for the
\* first); what a model-less layer returns is kept as the result and given
\* to no layer; once a layer raised, no later layer is invoked.
C6_LayersInOrderModelThreaded ==
    run.pc # "idle"
        => /\ Len(run.calls) <= Len(stack.layers)
           /\ \A k \in 1..Len(run.calls) :
                 /\ run.calls[k].layer = k
                 /\ run.calls[k].aware = stack.layers[k].layer.model_aware
                 /\ k < Len(run.calls) => ~run.calls[k].did.raises
                 /\ run.calls[k].model = IF run.calls[k].aware THEN ModelBefore(k) ELSE NoModel
           /\ run.result = ResultOfCalls

\* a model-aware layer, a model-less one and a model-aware one again, which
\* got what the first returned, not what the second did
C6_Witness ==
    /\ run.pc # "idle"
    /\ Len(run.calls) = 3
    /\ run.calls[1].aware /\ ~run.calls[2].aware /\ run.calls[3].aware
    /\ run.calls[1].did.v # run.calls[2].did.v
    /\ run.calls[1].did.v # run.model0
    /\ run.calls[3].model = run.calls[1].did.v
    /\ run.result = run.calls[2].did.v

\* every layer of the Stack was invoked and returned
AllLayersReturned ==
    /\ run.pc # "idle"
    /\ stack.layers # <<>>
    /\ Len(run.calls) = Len(stack.layers)
    /\ ~LastCallRaised

LastLayerAware == stack.layers[Len(stack.layers)].layer.model_aware

\* C7: with a save path, once all layers returned: a model-aware last layer
\* has its save hook invoked exactly once, with the model the last call
\* returned and the save path made absolute in the caller's directory; a
\* model-less last layer makes run raise LayerStackError, no hook invoked.
C7_SaveHookOnceOrLayerStackError ==
    /\ run.pc # "idle" =>
          /\ Len(run.saves) <= 1
          /\ run.saves # <<>> =>
                /\ AllLayersReturned
                /\ LastLayerAware
                /\ run.pc \in {"returned", "raised"}
                /\ run.saves[1].model = run.calls[Len(run.calls)].did.v
                /\ run.saves[1].path.abs
                /\ run.saves[1].path = Absolute(run.save_arg, run.cwd0)
    /\ (Exited /\ AllLayersReturned /\ ~run.save_arg.nil) =>
          IF LastLayerAware
          THEN Len(run.saves) = 1
          ELSE run.pc = "raised" /\ run.exc = "LayerStackError" /\ run.saves = <<>>

\* run returned after the save hook got the model of the second layer
C7_Witness ==
    /\ run.pc = "returned"
    /\ Len(run.calls) = 2
    /\ Len(run.saves) = 1
    /\ run.saves[1].model = ModelObj(2)
    /\ run.saves[1].path = Absolute(SaveRel, Home)

\* after a model-less last layer run raised and no save hook was invoked
C7_WitnessModelLess ==
    /\ run.pc = "raised"
    /\ AllLayersReturned
    /\ ~run.save_arg.nil
    /\ ~LastLayerAware
    /\ run.saves = <<>>

(***************************************************************************)
(* The Stack as a mutable sequence, run_dir and the arguments of the       *)
(* layers.  The caller passes Layers and objects that are no Layers: an    *)
(* int, which has no attribute name, and a Path, which has one.            *)
(***************************************************************************)
\* the longest Stack that is edited
MaxLayers == 2

AnInt == [py |-> "int", has_name |-> FALSE]

APath == [py |-> "PosixPath", has_name |-> TRUE]

EditLayers ==
    {LayerNew(LayerPath, LayerDef("la", FALSE, <<Arg("X", NoneV, "None", "None", NoChoices, "None")>>)),
     LayerNew(LayerPath, LayerDef("lb", FALSE, <<>>))}

Elements == EditLayers \cup {AnInt, APath}

\* isinstance(value, Layer)
IsLayer(value) == value.py = "Layer"

\* hasattr(value, 'name')
HasName(value) == IF IsLayer(value) THEN TRUE ELSE value.has_name

\* Stack.__checkLayer
checkLayer(value) == IF IsLayer(value) THEN "none" ELSE "LayerStackError"

\* list.insert(i, x) with the 0-based index i of Python: negative indices
\* count from the end, indices out of range go to the nearest end
ListInsert(xs, i, x) ==
    LET n == Len(xs)
        at == IF i < 0 THEN (IF n + i < 0 THEN 0 ELSE n + i) ELSE (IF i > n THEN n ELSE i)
    IN SubSeq(xs, 1, at) \o <<x>> \o SubSeq(xs, at + 1, n)

\* del list[i] with the 0-based index i of Python
ListDelete(xs, i) ==
    LET n == Len(xs)
        at == IF i < 0 THEN n + i ELSE i
    IN SubSeq(xs, 1, at) \o SubSeq(xs, at + 2, n)

\* the first element of layers that is no Layer, 0 if all are
FirstNonLayer(layers) ==
    IF \A k \in 1..Len(layers) : IsLayer(layers[k]) THEN 0
    ELSE CHOOSE k \in 1..Len(layers) : ~IsLayer(layers[k]) /\ \A j \in 1..(k - 1) : IsLayer(layers[j])

\* stack = Stack(layers=layers, run_dir=run_dir): when __init__ raises the
\* caller keeps the Stack it had
Construct(layers, run_dir) ==
    /\ last \in Editing
    /\ IF FirstNonLayer(layers) # 0
       THEN /\ err' = checkLayer(layers[FirstNonLayer(layers)])
            /\ stack' = stack
       ELSE /\ err' = "none"
            /\ stack' = StackNew(layers, run_dir, NoModel)
    /\ last' = "construct"
    /\ UNCHANGED <<fs, cwd, file, saved, load_map, short_names, run, ret>>

\* stack.append(layer): layer.name is read for the debug log first
append(layer) ==
    /\ last \in Editing
    /\ Len(stack.layers) < MaxLayers
    /\ IF ~HasName(layer)
       THEN /\ err' = "AttributeError"
            /\ stack' = stack
       ELSE IF checkLayer(layer) # "none"
       THEN /\ err' = checkLayer(layer)
            /\ stack' = stack
       ELSE /\ err' = "none"
            /\ stack' = [stack EXCEPT !.layers = Append(@, layer)]
    /\ last' = "append"
    /\ UNCHANGED <<fs, cwd, file, saved, load_map, short_names, run, ret>>

\* stack.insert(i, layer)
insert(i, layer) ==
    /\ last \in Editing
    /\ Len(stack.layers) < MaxLayers
    /\ IF checkLayer(layer) # "none"
       THEN /\ err' = checkLayer(layer)
            /\ stack' = stack
       ELSE /\ err' = "none"
            /\ stack' = [stack EXCEPT !.layers = ListInsert(@, i, layer)]
    /\ last' = "insert"
    /\ UNCHANGED <<fs, cwd, file, saved, load_map, short_names, run, ret>>

\* stack[i] = layer: the layer is inserted at i
StackSetItem(i, layer) ==
    /\ last \in Editing
    /\ Len(stack.layers) < MaxLayers
    /\ IF checkLayer(layer) # "none"
       THEN /\ err' = checkLayer(layer)
            /\ stack' = stack
       ELSE /\ err' = "none"
            /\ stack' = [stack EXCEPT !.layers = ListInsert(@, i, layer)]
    /\ last' = "setitem"
    /\ UNCHANGED <<fs, cwd, file, saved, load_map, short_names, run, ret>>

\* del stack[i]
StackDelItem(i) ==
    /\ last \in Editing
    /\ IF i >= Len(stack.layers) \/ i < 0 - Len(stack.layers)
       THEN /\ err' = "IndexError"
            /\ stack' = stack
       ELSE /\ err' = "none"
            /\ stack' = [stack EXCEPT !.layers = ListDelete(@, i)]
    /\ last' = "delitem"
    /\ UNCHANGED <<fs, cwd, file, saved, load_map, short_names, run, ret>>

\* stack.run_dir = value
SetRunDir(value) ==
    /\ last \in Editing
    /\ stack' = [stack EXCEPT !.run_dir = value]
    /\ err' = "none"
    /\ last' = "run_dir"
    /\ UNCHANGED <<fs, cwd, file, saved, load_map, short_names, run, ret>>

InitEdit ==
    /\ stack = EmptyStack
    /\ fs = (Home :> PlainDir)
    /\ cwd = Home
    /\ file = NoFile
    /\ err = "none"
    /\ last = "new"
    /\ saved = [stack |-> EmptyStack, fs |-> <<>>]
    /\ load_map = <<>>
    /\ run = NotRunning
    /\ ret = NoCall
    /\ short_names = NoShortNames

NextEdit ==
    \/ \E layers \in UNION {[1..k -> Elements] : k \in 0..MaxLayers}, run_dir \in {NoPath, OutAbs} :
          Construct(layers, run_dir)
    \/ \E layer \in Elements : append(layer)
    \/ \E i \in (0 - MaxLayers)..MaxLayers, layer \in Elements : insert(i, layer)
    \/ \E i \in (0 - MaxLayers)..MaxLayers, layer \in Elements : StackSetItem(i, layer)
    \/ \E i \in (0 - MaxLayers)..MaxLayers : StackDelItem(i)
    \/ \E value \in {NoPath, OutAbs, OutRel} : SetRunDir(value)
    \/ \E mode \in {"DESC", "USE"} : SetArgMode(mode)
    \/ \E l \in 1..MaxLayers, v \in {NoneV, IntV(1)} : ArgSetItem(l, 1, v)

\* a caller that builds and edits a Stack
SpecEdit == InitEdit /\ [][NextEdit]_vars

\* the positional arguments of the Stack that are not set
UnsetArgs(stk) ==
    {<<l, i>> \in (1..Len(stk.layers)) \X (1..MaxArgs) :
        i <= Len(stk.layers[l].args) /\ ~ArgSet(stk.layers[l].args[i])}

\* C8: a Stack is runnable exactly when run_dir is set and every positional
\* argument of every layer is set; with run_dir set and exactly one argument
\* unset it is not runnable, and setting that argument makes it runnable.
C8_RunnableIffAllSet ==
    /\ [](runnable(stack) <=> (~stack.run_dir.nil /\ UnsetArgs(stack) = {}))
    /\ [][(/\ ~stack.run_dir.nil
           /\ Cardinality(UnsetArgs(stack)) = 1
           /\ last' = "edit"
           /\ UnsetArgs(stack') = {})
             => (~runnable(stack) /\ runnable(stack'))]_vars

\* a Stack of two layers that became runnable by an assignment to the
\* argument of one of them
C8_Witness ==
    /\ last = "edit"
    /\ err = "none"
    /\ Len(stack.layers) = 2
    /\ \E l \in 1..2 : stack.layers[l].args # <<>> /\ stack.layers[l].args_mode = "USE"
    /\ runnable(stack)

\* the operations that put an element into the Stack
PutOps == {"construct", "append", "insert", "setitem"}

\* C9: constructing a Stack with, appending, inserting or assigning by
\* index an object that is no Layer raises LayerStackError and leaves the
\* sequence as it was: no Stack ever holds such an object.
C9_NonLayerRaisesLayerStackError ==
    [][last' \in PutOps
          => /\ \A k \in 1..Len(stack'.layers) : IsLayer(stack'.layers[k])
             /\ err' \in {"none", "LayerStackError"}
             /\ err' # "none" => stack' = stack]_vars

(***************************************************************************)
(* Stack.get_layer_dir on a file system with the directory a layer was     *)
(* serialized with and library directories that may hold a copy of it.     *)
(***************************************************************************)
\* the longest list of library directories
MaxLibs == 2

OrigLa == Path(TRUE, <<"orig", "la">>)

OrigLb == Path(TRUE, <<"orig", "lb">>)

Lib1 == Path(TRUE, <<"lib1">>)

Lib2 == Path(TRUE, <<"lib2">>)

DirDef == LayerDef("la", FALSE, <<>>)

\* the contents of a library directory: missing, empty, or holding la
LibContents(lib) ==
    {(lib :> Absent) @@ (Join(lib, "la") :> Absent),
     (lib :> PlainDir) @@ (Join(lib, "la") :> Absent),
     (lib :> PlainDir) @@ (Join(lib, "la") :> LayerDir(DirDef))}

\* the .json of a Stack of the layer la, saved when it was loaded from OrigLa
SavedAtOrig == json_data(StackNew(<<LayerNew(OrigLa, DirDef)>>, NoPath, NoModel))

LibLists == UNION {[1..k -> {Lib1, Lib2}] : k \in 0..MaxLibs}

InitDir ==
    /\ \E orig \in {Absent, LayerDir(DirDef)}, c1 \in LibContents(Lib1), c2 \in LibContents(Lib2) :
          fs = (OrigLa :> orig) @@ c1 @@ c2
    /\ stack = EmptyStack
    /\ cwd = Home
    /\ file = SavedAtOrig
    /\ err = "none"
    /\ last = "save"
    /\ saved = [stack |-> EmptyStack, fs |-> <<>>]
    /\ load_map = <<>>
    /\ run = NotRunning
    /\ ret = NoCall
    /\ short_names = NoShortNames

\* Stack.get_layer_dir(layer_dir, layer_library_dirs=dirs, original_preferred=original_preferred)
GetLayerDir(layer_dir, dirs, original_preferred) ==
    /\ ret' = [method |-> "get_layer_dir", layer_dir |-> layer_dir, dirs |-> dirs,
               original_preferred |-> original_preferred,
               result |-> get_layer_dir(fs, layer_dir, dirs, original_preferred)]
    /\ err' = "none"
    /\ last' = "get_layer_dir"
    /\ UNCHANGED <<fs, cwd, stack, file, saved, load_map, short_names, run>>

NextDir ==
    \/ \E layer_dir \in {OrigLa, OrigLb}, dirs \in LibLists, original_preferred \in BOOLEAN :
          GetLayerDir(layer_dir, dirs, original_preferred)
    \/ \E libs \in {NoLibs} \cup {Libs(dirs) : dirs \in LibLists}, original_preferred \in BOOLEAN :
          Load(libs, original_preferred)

\* calls of Stack.get_layer_dir, and Stack.load of a file saved earlier
SpecDir == InitDir /\ [][NextDir]_vars

\* C10: with the original layer directory on disk and one library
\* directory that holds a layer of the same name, get_layer_dir returns the
\* original path when original_preferred is True and the path in the
\* library when it is False.
C10_OriginalPreferredReturnsOriginal ==
    (/\ ret.method = "get_layer_dir"
     /\ Len(ret.dirs) = 1
     /\ Exists(fs, ret.layer_dir)
     /\ Exists(fs, JoinName(ret.dirs[1], ret.layer_dir)))
        => ret.result = IF ret.original_preferred THEN ret.layer_dir
                        ELSE JoinName(ret.dirs[1], ret.layer_dir)

\* the directories to search for a layer, in the order of the search policy
Candidates(layer_dir, dirs, original_preferred) ==
    IF original_preferred THEN <<Parent(layer_dir)>> \o dirs ELSE dirs \o <<Parent(layer_dir)>>

\* the first candidate that holds a directory of the layer's name, None without one
FirstHolding(layer_dir, cands) ==
    LET hits == {k \in 1..Len(cands) : Exists(fs, JoinName(cands[k], layer_dir))}
    IN IF hits = {} THEN NoPath
       ELSE JoinName(cands[CHOOSE k \in hits : \A h \in hits : k <= h], layer_dir)

\* C11: get_layer_dir returns the first candidate location, in search
\* order, that holds a directory of the layer's name, so a path it returns
\* is on disk; when no candidate holds one it returns None.
C11_ResultIsFirstOnDisk ==
    ret.method = "get_layer_dir"
        => /\ ret.result.nil \/ Exists(fs, ret.result)
           /\ ret.result = FirstHolding(ret.layer_dir,
                               Candidates(ret.layer_dir, ret.dirs, ret.original_preferred))

\* C12: Stack.load of a layer whose serialized directory is gone loads it
\* from the first library directory that holds a layer of that name, also
\* when the original location is preferred; when neither the original nor
\* a library directory holds it, load raises LayerStackError and returns no
\* Stack.
C12_LoadFallsBackToLibrary ==
    (last = "load" /\ ret.method = "load" /\ ~Exists(fs, OrigLa))
        => LET found == FirstHolding(OrigLa, ret.libs.dirs)
           IN IF found.nil
              THEN err = "LayerStackError" /\ stack = EmptyStack
              ELSE /\ err = "none"
                   /\ Len(stack.layers) = 1
                   /\ stack.layers[1].layer_dir = found

(***************************************************************************)
(* ArgList and KwargDict as containers: the mode, and the operations that  *)
(* put elements into them.  The containers are those of the one Layer of   *)
(* the Stack.  ArgList inherits append, insert, extend and the construction*)
(* from an iterable from list; KwargDict gets every insertion through its  *)
(* __setitem__.                                                            *)
(***************************************************************************)
\* isinstance(x, Kwarg)
IsKwarg(x) == "default" \in DOMAIN x

\* Kwarg() stored under key
DefaultKwarg(key) == Kwarg(key, NoneV, NoneV, "None", "None", NoChoices, "None")

\* the position of key in the KwargDict, 0 if it is not a key
KeyIndex(kwargs, key) ==
    IF \E j \in 1..Len(kwargs) : kwargs[j].name = key
    THEN CHOOSE j \in 1..Len(kwargs) : kwargs[j].name = key
    ELSE 0

\* KwargDict.__setitem__ in DESC mode
KwargDictPut(kwargs, key, value) ==
    IF ~IsKwarg(value) THEN [kwargs |-> kwargs, exc |-> "LayerStackTypeError"]
    ELSE IF KeyIndex(kwargs, key) = 0
    THEN [kwargs |-> Append(kwargs, [value EXCEPT !.name = key]), exc |-> "none"]
    ELSE [kwargs |-> [kwargs EXCEPT ![KeyIndex(kwargs, key)] = [value EXCEPT !.name = key]],
          exc |-> "none"]

\* KwargDict.__setitem__: in DESC mode a Kwarg is stored under key and
\* anything else is refused; in USE mode the value of the Kwarg under key is
\* set, after a default Kwarg was created for a key that is new
KwargDictSetItem(kwargs, mode, key, value) ==
    IF mode = "DESC" THEN KwargDictPut(kwargs, key, value)
    ELSE LET with == IF KeyIndex(kwargs, key) = 0 THEN Append(kwargs, DefaultKwarg(key)) ELSE kwargs
             j == KeyIndex(with, key)
         IN [kwargs |-> [with EXCEPT ![j] = KwargSetValue(@, value).kwarg],
             exc |-> KwargSetValue(with[j], value).exc]

\* KwargDict.__getitem__: the Kwarg in DESC mode, its value in USE mode
KwargDictGetItem(kwargs, mode, key) ==
    IF KeyIndex(kwargs, key) = 0 THEN Raise("KeyError")
    ELSE IF mode = "DESC" THEN Ok(kwargs[KeyIndex(kwargs, key)])
    ELSE Ok(KwargValue(kwargs[KeyIndex(kwargs, key)]))

RECURSIVE KwargDictUpdate(_, _, _)
\* OrderedDict.__init__(iterable) on the empty KwargDict in DESC mode: one
\* __setitem__ per pair, up to the first that raises
KwargDictUpdate(kwargs, pairs, i) ==
    IF i > Len(pairs) THEN [kwargs |-> kwargs, exc |-> "none"]
    ELSE LET r == KwargDictPut(kwargs, pairs[i].key, pairs[i].value)
         IN IF r.exc # "none" THEN r ELSE KwargDictUpdate(r.kwargs, pairs, i + 1)

\* the descriptors and the plain values a caller has at hand
ArgPool == {Arg("X", NoneV, "None", "None", NoChoices, "None"),
            Arg("Z", NoneV, "int", "None", NoChoices, "None")}

KwargPool == {Kwarg("", IntV(1), NoneV, "None", "None", NoChoices, "None")}

PlainValues == {StrV(<<"1", "2">>)}

Keys == {"p", "q"}

\* layer.args.mode = value
ArgsModeSet(value) ==
    /\ last \in Editing
    /\ LET r == ModeSet(stack.layers[1].args, stack.layers[1].args_mode, value)
       IN /\ stack' = [stack EXCEPT !.layers[1].args = r.args, !.layers[1].args_mode = r.mode]
          /\ err' = r.exc
    /\ last' = "mode"
    /\ UNCHANGED <<fs, cwd, file, saved, load_map, short_names, run, ret>>

\* layer.kwargs.mode = value
KwargsModeSet(value) ==
    /\ last \in Editing
    /\ LET r == ModeSet(stack.layers[1].kwargs, stack.layers[1].kwargs_mode, value)
       IN /\ stack' = [stack EXCEPT !.layers[1].kwargs = r.args, !.layers[1].kwargs_mode = r.mode]
          /\ err' = r.exc
    /\ last' = "mode"
    /\ UNCHANGED <<fs, cwd, file, saved, load_map, short_names, run, ret>>

\* layer.args.append(x): list.append
ArgListAppend(x) ==
    /\ last \in Editing
    /\ Len(stack.layers[1].args) < MaxArgs
    /\ stack' = [stack EXCEPT !.layers[1].args = Append(@, x)]
    /\ err' = "none"
    /\ last' = "put"
    /\ UNCHANGED <<fs, cwd, file, saved, load_map, short_names, run, ret>>

\* layer.args.insert(i, x): list.insert
ArgListInsert(i, x) ==
    /\ last \in Editing
    /\ Len(stack.layers[1].args) < MaxArgs
    /\ stack' = [stack EXCEPT !.layers[1].args = ListInsert(@, i, x)]
    /\ err' = "none"
    /\ last' = "put"
    /\ UNCHANGED <<fs, cwd, file, saved, load_map, short_names, run, ret>>

\* layer.args.extend(xs): list.extend
ArgListExtend(xs) ==
    /\ last \in Editing
    /\ Len(stack.layers[1].args) + Len(xs) <= MaxArgs
    /\ stack' = [stack EXCEPT !.layers[1].args = @ \o xs]
    /\ err' = "none"
    /\ last' = "put"
    /\ UNCHANGED <<fs, cwd, file, saved, load_map, short_names, run, ret>>

\* the ArgList is built anew: ArgList(iterable, mode)
ArgListNew(iterable, mode) ==
    /\ last \in Editing
    /\ stack' = [stack EXCEPT !.layers[1].args = iterable, !.layers[1].args_mode = mode]
    /\ err' = "none"
    /\ last' = "put"
    /\ UNCHANGED <<fs, cwd, file, saved, load_map, short_names, run, ret>>

\* layer.kwargs[key] = value
KwargSetItem(key, value) ==
    /\ last \in Editing
    /\ LET r == KwargDictSetItem(stack.layers[1].kwargs, stack.layers[1].kwargs_mode, key, value)
       IN /\ stack' = [stack EXCEPT !.layers[1].kwargs = r.kwargs]
          /\ err' = r.exc
    /\ last' = "put"
    /\ UNCHANGED <<fs, cwd, file, saved, load_map, short_names, run, ret>>

\* the KwargDict is built anew: KwargDict(pairs, mode); when a pair is
\* refused the layer keeps the KwargDict it had
KwargDictNew(pairs, mode) ==
    /\ last \in Editing
    /\ LET r == KwargDictUpdate(<<>>, pairs, 1)
       IN /\ err' = r.exc
          /\ stack' = IF r.exc = "none"
                      THEN [stack EXCEPT !.layers[1].kwargs = r.kwargs, !.layers[1].kwargs_mode = mode]
                      ELSE stack
    /\ last' = "put"
    /\ UNCHANGED <<fs, cwd, file, saved, load_map, short_names, run, ret>>

\* what the caller assigns by index or key: descriptors and plain values to a
\* container in DESC mode, plain values to one in USE mode
ArgsAssignable ==
    IF stack.layers[1].args_mode = "DESC" THEN ArgPool \cup PlainValues ELSE PlainValues

KwargsAssignable ==
    IF stack.layers[1].kwargs_mode = "DESC" THEN KwargPool \cup PlainValues
    ELSE PlainValues \cup {NoneV}

InitArgs ==
    /\ stack = StackNew(<<LayerNew(LayerPath, LayerDef("la", FALSE, <<>>))>>, NoPath, NoModel)
    /\ fs = (LayerPath :> LayerDir(LayerDef("la", FALSE, <<>>)))
    /\ cwd = Home
    /\ file = NoFile
    /\ err = "none"
    /\ last = "new"
    /\ saved = [stack |-> EmptyStack, fs |-> <<>>]
    /\ load_map = <<>>
    /\ run = NotRunning
    /\ ret = NoCall
    /\ short_names = NoShortNames

NextArgs ==
    \/ \E value \in {"DESC", "USE", "BAD"} : ArgsModeSet(value)
    \/ \E value \in {"DESC", "USE", "BAD"} : KwargsModeSet(value)
    \/ \E i \in 1..MaxArgs, v \in ArgsAssignable : ArgSetItem(1, i, v)
    \/ \E x \in ArgPool \cup PlainValues : ArgListAppend(x)
    \/ \E i \in 0..MaxArgs, x \in ArgPool \cup PlainValues : ArgListInsert(i, x)
    \/ \E xs \in UNION {[1..k -> ArgPool \cup PlainValues] : k \in 1..2} : ArgListExtend(xs)
    \/ \E iterable \in UNION {[1..k -> ArgPool \cup PlainValues] : k \in 0..1},
          mode \in {"DESC", "USE"} : ArgListNew(iterable, mode)
    \/ \E key \in Keys, value \in KwargsAssignable : KwargSetItem(key, value)
    \/ \E pairs \in UNION {[1..k -> [key : Keys, value : KwargPool \cup PlainValues]] : k \in 0..1},
          mode \in {"DESC", "USE"} : KwargDictNew(pairs, mode)

\* a caller that builds and uses the containers of a Layer
SpecArgs == InitArgs /\ [][NextArgs]_vars

\* what a read of every position of the ArgList gives in mode m
ArgReads(args, m) == [i \in 1..Len(args) |-> ArgListGetItem(args, m, i)]

\* what a read of every key of the KwargDict gives in mode m
KwargReads(kwargs, m) == [j \in 1..Len(kwargs) |-> KwargDictGetItem(kwargs, m, kwargs[j].name)]

\* C13: an assignment to the mode of the ArgList or of the KwargDict, valid
\* or not, leaves the descriptors, their order, their values and their set and
\* defaulted flags as they were, so that a read in either mode gives after
\* the assignment what it gave before it; a read in DESC mode gives the
\* descriptor itself, and a read in USE mode gives the value of a descriptor
\* whose value is set, which is no descriptor
C13_ModeRoundTrip ==
    /\ [][last' = "mode" =>
            /\ stack'.layers[1].args = stack.layers[1].args
            /\ stack'.layers[1].kwargs = stack.layers[1].kwargs
            /\ \A m \in {"DESC", "USE"} :
                  /\ ArgReads(stack'.layers[1].args, m) = ArgReads(stack.layers[1].args, m)
                  /\ KwargReads(stack'.layers[1].kwargs, m) = KwargReads(stack.layers[1].kwargs, m)
            /\ stack'.layers[1].args_mode \in {"DESC", "USE"}
            /\ stack'.layers[1].kwargs_mode \in {"DESC", "USE"}]_vars
    /\ [](\A i \in 1..Len(stack.layers[1].args) :
            (IsArg(stack.layers[1].args[i]) /\ stack.layers[1].args[i].has_value) =>
               /\ ArgListGetItem(stack.layers[1].args, "DESC", i) = Ok(stack.layers[1].args[i])
               /\ ArgListGetItem(stack.layers[1].args, "USE", i) = Ok(stack.layers[1].args[i].value)
               /\ ~IsArg(ArgListGetItem(stack.layers[1].args, "USE", i).v))
    /\ [](\A j \in 1..Len(stack.layers[1].kwargs) :
            LET k == stack.layers[1].kwargs[j]
            IN /\ KwargDictGetItem(stack.layers[1].kwargs, "DESC", k.name) = Ok(k)
               /\ KwargDictGetItem(stack.layers[1].kwargs, "USE", k.name) =
                     Ok(IF k.has_value THEN k.value ELSE k.default)
               /\ ~IsKwarg(KwargDictGetItem(stack.layers[1].kwargs, "USE", k.name).v))

\* both containers are back in DESC mode and still hold a value that could
\* only be written in USE mode: "12" parsed to 12 by the Arg with parser int,
\* and a Kwarg whose value is set
C13_Witness ==
    /\ last = "mode"
    /\ err = "none"
    /\ stack.layers[1].args_mode = "DESC"
    /\ stack.layers[1].kwargs_mode = "DESC"
    /\ \E i \in 1..Len(stack.layers[1].args) :
          /\ IsArg(stack.layers[1].args[i])
          /\ stack.layers[1].args[i].has_value
          /\ stack.layers[1].args[i].value = IntV(12)
    /\ \E j \in 1..Len(stack.layers[1].kwargs) : stack.layers[1].kwargs[j].has_value

\* every element of the ArgList is an Arg
AllArgs(args) == \A i \in 1..Len(args) : IsArg(args[i])

\* every element of the KwargDict is a Kwarg
AllKwargs(kwargs) == \A j \in 1..Len(kwargs) : IsKwarg(kwargs[j])

\* C14: a container in DESC mode that holds only descriptors holds only
\* descriptors after any operation on it, and an operation that was refused
\* raised LayerStackTypeError and left the container as it was
C14_OnlyDescriptorsInserted ==
    [][/\ (stack.layers[1].args_mode = "DESC" /\ AllArgs(stack.layers[1].args)) =>
              AllArgs(stack'.layers[1].args)
       /\ (stack.layers[1].kwargs_mode = "DESC" /\ AllKwargs(stack.layers[1].kwargs)) =>
              AllKwargs(stack'.layers[1].kwargs)
       /\ (last' = "put" /\ err' # "none" /\ stack.layers[1].kwargs_mode = "DESC") =>
              (err' = "LayerStackTypeError" /\ stack' = stack)]_vars

(***************************************************************************)
(* Values of single descriptors.  The Layer holds one Arg or one Kwarg,    *)
(* its containers stay in DESC mode, and the caller assigns to the value   *)
(* of the descriptor: layer.args[0].value = v, layer.kwargs['p'].value = v.*)
(***************************************************************************)
Arities == {NoneV, StrV(<<"+">>), StrV(<<"*">>), IntV(2)}

Parsers == {"None", "str", "int"}

ListParsers == {"None", "list"}

ChoiceLists == {NoChoices,
                Choices(<<IntV(1), IntV(2)>>),
                Choices(<<StrV(<<"a">>), StrV(<<"b">>)>>),
                Choices(<<ListV(<<IntV(1), IntV(5)>>)>>)}

Defaults == {NoneV, IntV(1), ListV(<<IntV(1), IntV(2)>>)}

\* the values a caller assigns
Assigned == {NoneV, IntV(1), IntV(5), StrV(<<"a">>), StrV(<<"a", "b">>), StrV(<<"1">>),
             ListV(<<IntV(1), IntV(2)>>), ListV(<<IntV(1), IntV(5)>>),
             ListV(<<StrV(<<"a">>), StrV(<<"b">>)>>), ListV(<<StrV(<<"a">>), StrV(<<"z">>)>>)}

\* whether Kwarg(default = default, ...) returns: the default is parsed on
\* construction
KwargConstructs(default, nargs, parser, list_parser, choices) ==
    process_value([nargs |-> nargs, parser |-> parser, list_parser |-> list_parser,
                   choices |-> choices], default, TRUE).ok

\* layer.args[i].value = v, the ArgList in DESC mode
ArgValueSet(i, v) ==
    /\ last \in Editing
    /\ stack.layers[1].args_mode = "DESC"
    /\ i \in 1..Len(stack.layers[1].args)
    /\ LET r == ArgSetValue(stack.layers[1].args[i], v)
       IN /\ stack' = [stack EXCEPT !.layers[1].args[i] = r.arg]
          /\ err' = r.exc
    /\ ret' = [method |-> "value", of |-> "Arg", v |-> v, was_set |-> stack.layers[1].args[i].has_value]
    /\ last' = "value"
    /\ UNCHANGED <<fs, cwd, file, saved, load_map, short_names, run>>

\* layer.kwargs[key].value = v, the KwargDict in DESC mode
KwargValueSet(key, v) ==
    /\ last \in Editing
    /\ stack.layers[1].kwargs_mode = "DESC"
    /\ KeyIndex(stack.layers[1].kwargs, key) # 0
    /\ LET j == KeyIndex(stack.layers[1].kwargs, key)
           r == KwargSetValue(stack.layers[1].kwargs[j], v)
       IN /\ stack' = [stack EXCEPT !.layers[1].kwargs[j] = r.kwarg]
          /\ err' = r.exc
    /\ ret' = [method |-> "value", of |-> "Kwarg", v |-> v,
               was_set |-> ~defaulted(stack.layers[1].kwargs[KeyIndex(stack.layers[1].kwargs, key)])]
    /\ last' = "value"
    /\ UNCHANGED <<fs, cwd, file, saved, load_map, short_names, run>>

\* the layers of one descriptor
ValueDefs ==
    {LayerDefKw("la", FALSE, <<Arg("X", n, p, lp, ch, "None")>>, <<>>) :
        n \in Arities, p \in Parsers, lp \in ListParsers, ch \in ChoiceLists}
    \cup
    {LayerDefKw("la", FALSE, <<>>, <<Kwarg("p", t[1], t[2], t[3], t[4], t[5], "None")>>) :
        t \in {u \in Defaults \X Arities \X Parsers \X ListParsers \X ChoiceLists :
                  KwargConstructs(u[1], u[2], u[3], u[4], u[5])}}

InitValue ==
    /\ \E def \in ValueDefs :
          /\ stack = StackNew(<<LayerNew(LayerPath, def)>>, NoPath, NoModel)
          /\ fs = (LayerPath :> LayerDir(def))
    /\ cwd = Home
    /\ file = NoFile
    /\ err = "none"
    /\ last = "new"
    /\ saved = [stack |-> EmptyStack, fs |-> <<>>]
    /\ load_map = <<>>
    /\ run = NotRunning
    /\ ret = NoCall
    /\ short_names = NoShortNames

NextValue ==
    \/ \E v \in Assigned : ArgValueSet(1, v)
    \/ \E v \in Assigned : KwargValueSet("p", v)

\* a caller that assigns values to the descriptor of a Layer
SpecValue == InitValue /\ [][NextValue]_vars

\* the descriptor of the Layer
Desc(s) == IF s.layers[1].args # <<>> THEN s.layers[1].args[1] ELSE s.layers[1].kwargs[1]

\* a number or a single string
Scalar(v) == v.k \in {"int", "str"}

\* C15: whatever the parser, the list_parser and the choices of a list-valued
\* descriptor are, the assignment of a number or of a single string to its
\* value raises and leaves the stored value as it was
C15_ScalarToListArityFails ==
    [][(last' = "value" /\ Scalar(ret'.v) /\ is_list(Desc(stack).nargs)) =>
          (err' # "none" /\ stack' = stack)]_vars

\* what a read of the value of the descriptor gives
ValueOf(d) == IF IsKwarg(d) THEN KwargValue(d) ELSE d.value

\* the value as the parser and the list_parser of the descriptor make it,
\* the choices left aside
Parsed(d, v) == process_value([d EXCEPT !.choices = NoChoices], v, FALSE)

\* some element of the list is no member of the choices
HasNonMember(xs, ch) == \E i \in 1..Len(xs.l) : ~InChoices(xs.l[i], ch)

\* the assignments the choices apply to: a value that is not None, a list
\* for a list-valued descriptor, which the parsers accept
ChoicesApply(d, v) ==
    /\ d.choices.has
    /\ v # NoneV
    /\ is_list(d.nargs) => v.k = "list"
    /\ Parsed(d, v).ok

\* C16 as stated: with choices, a parsed value that is no member, or a parsed
\* list with an element that is no member, is refused with
\* LayerStackRuntimeError and the stored value stays; a member is stored and
\* read back as parsed
C16_NonMemberRefused ==
    [][(last' = "value" /\ ChoicesApply(Desc(stack), ret'.v)) =>
          LET d == Desc(stack)
              r == Parsed(d, ret'.v)
              refused == IF is_list(d.nargs) THEN HasNonMember(r.v, d.choices)
                         ELSE ~InChoices(r.v, d.choices)
          IN IF refused THEN err' = "LayerStackRuntimeError" /\ stack' = stack
             ELSE err' = "none" /\ ValueOf(Desc(stack')) = r.v /\ Desc(stack').has_value]_vars

\* C16, amended: a parsed list with an element that is no member is refused
\* unless the list as a whole is one of the choices; then it is stored like a
\* member
C16_NonMemberRefusedUnlessListIsChoice ==
    [][(last' = "value" /\ ChoicesApply(Desc(stack), ret'.v)) =>
          LET d == Desc(stack)
              r == Parsed(d, ret'.v)
              refused == IF is_list(d.nargs)
                         THEN HasNonMember(r.v, d.choices) /\ ~InChoices(r.v, d.choices)
                         ELSE ~InChoices(r.v, d.choices)
          IN IF refused THEN err' = "LayerStackRuntimeError" /\ stack' = stack
             ELSE err' = "none" /\ ValueOf(Desc(stack')) = r.v /\ Desc(stack').has_value]_vars

\* a list-valued descriptor with choices holds a list of members, and the
\* assignment of a list with a non-member has just been refused
C16_Witness ==
    /\ last = "value"
    /\ err = "LayerStackRuntimeError"
    /\ ret.v = ListV(<<IntV(1), IntV(5)>>)
    /\ is_list(Desc(stack).nargs)
    /\ Desc(stack).choices = Choices(<<IntV(1), IntV(2)>>)
    /\ Desc(stack).has_value
    /\ ValueOf(Desc(stack)) = ListV(<<IntV(1), IntV(2)>>)

MaxNames == 3

MaxShortNames == 2

seps == <<"_", "-">>

RECURSIVE split(_, _)
\* str.split(sep)
split(astr, sep) ==
    IF \A i \in 1..Len(astr) : astr[i] # sep THEN <<astr>>
    ELSE LET i == CHOOSE i \in 1..Len(astr) :
                     astr[i] = sep /\ \A j \in 1..(i - 1) : astr[j] # sep
         IN <<SubSeq(astr, 1, i - 1)>> \o split(SubSeq(astr, i + 1, Len(astr)), sep)

RECURSIVE SplitParts(_, _)
\* tmp.extend(part.split(sep)) for every part
SplitParts(parts, sep) ==
    IF parts = <<>> THEN <<>>
    ELSE split(Head(parts), sep) \o SplitParts(Tail(parts), sep)

RECURSIVE multisplit(_, _, _)
\* multisplit(astr, seps), the separators from the i-th on applied to parts
multisplit(parts, ss, i) ==
    IF i > Len(ss) THEN parts ELSE multisplit(SplitParts(parts, ss[i]), ss, i + 1)

\* part[:m]
Prefix(part, m) == SubSeq(part, 1, IF Len(part) < m THEN Len(part) ELSE m)

RECURSIVE CandidateFrom(_, _, _, _)
\* the candidate of the inner loop: M characters of each of the first n
\* parts, M - 1 characters of each of the others
CandidateFrom(parts, n, M, i) ==
    IF i > Len(parts) THEN <<>>
    ELSE Prefix(parts[i], IF i <= n THEN M ELSE M - 1) \o CandidateFrom(parts, n, M, i + 1)

Candidate(parts, n, M) == CandidateFrom(parts, n, M, 1)

\* a test that finds every candidate free
InNamesNever(candidate, names) == FALSE

\* candidate in short_names
InNames(candidate, names) == \E i \in 1..Len(names) : names[i] = candidate

\* the n at which the inner loop breaks, 0 if it runs to its end
FirstFree(parts, M, names) ==
    IF \A n \in 1..Len(parts) : InNames(Candidate(parts, n, M), names) THEN 0
    ELSE CHOOSE n \in 1..Len(parts) :
             /\ ~InNames(Candidate(parts, n, M), names)
             /\ \A j \in 1..(n - 1) : InNames(Candidate(parts, j, M), names)

RECURSIVE ShortNameLoop(_, _, _, _, _)
\* the outer loop from the round M on.  From M = len(name) + 1 on every
\* round has the candidates of the round before, so that a loop that has not
\* left by M = len(name) + 3 never leaves
ShortNameLoop(name, names, M, candidates, k) ==
    LET parts == multisplit(<<name>>, seps, 1)
        n == FirstFree(parts, M, names)
        tried == {Candidate(parts, j, M) : j \in 1..(IF n = 0 THEN Len(parts) ELSE n - 1)}
    IN IF k # 0 /\ Cardinality(candidates) = k
       THEN [kind |-> "raise", exc |-> "LayerStackRuntimeError", short_name |-> <<>>, short_names |-> names]
       ELSE IF M > Len(name) + 3
       THEN [kind |-> "hang", exc |-> "none", short_name |-> <<>>, short_names |-> names]
       ELSE IF n # 0 /\ Candidate(parts, n, M) # <<>>
       THEN [kind |-> "return", exc |-> "none", short_name |-> Candidate(parts, n, M),
             short_names |-> Append(names, Candidate(parts, n, M))]
       ELSE ShortNameLoop(name, names, M + 1, candidates \cup tried, Cardinality(candidates))

\* get_short_name(name, short_names): how the call ends, what it returns,
\* and the list short_names afterwards
get_short_name(name, names) == ShortNameLoop(name, names, 1, {}, 0)

HELP == <<"h", "e", "l", "p">>

\* the option strings of a new argparse.ArgumentParser: -h and --help
NewParser == {<<"h">>, HELP}

RECURSIVE add_arguments(_, _, _, _, _)
\* the loop of KwargDict.add_arguments from the i-th key on: a short name is
\* derived for the key and the option is added to the parser, which refuses
\* an option string it has already
add_arguments(keys, i, names, parser, results) ==
    IF i > Len(keys) THEN [kind |-> "return", exc |-> "none", short_names |-> names, results |-> results]
    ELSE LET r == get_short_name(keys[i], names)
         IN IF r.kind # "return"
            THEN [kind |-> r.kind, exc |-> r.exc, short_names |-> names, results |-> results]
            ELSE IF r.short_name \in parser \/ keys[i] \in parser
            THEN [kind |-> "raise", exc |-> "ArgumentError", short_names |-> r.short_names,
                  results |-> Append(results, r.short_name)]
            ELSE add_arguments(keys, i + 1, r.short_names, parser \cup {r.short_name, keys[i]},
                               Append(results, r.short_name))

DREDGE == <<"d", "r", "e", "d", "g", "e">>

RUDE_AWAKENING == <<"r", "u", "d", "e", "-", "a", "w", "a", "k", "e", "n", "i", "n", "g">>

RECHARGE_AREA == <<"r", "e", "c", "h", "a", "r", "g", "e", "_", "a", "r", "e", "a">>

\* the names a caller asks short names for: the three of the test, one that
\* is a short name already, and one that is a separator only
NamePool == {DREDGE, RUDE_AWAKENING, RECHARGE_AREA, <<"d">>, <<"_">>}

\* the lists a caller starts with
Seeds == {<<>>, <<<<"r">>, <<"d">>, <<"h">>>>}

\* the keys of the KwargDict of the layer
KeyLists == {<<DREDGE, RUDE_AWAKENING>>, <<HELP>>}

\* the caller starts to derive short names against a list of its own
NewList(seed) ==
    /\ last # "hung"
    /\ short_names' = [short_names EXCEPT !.given = seed]
    /\ ret' = [method |-> "short_names", how |-> "given", start |-> seed,
               names |-> <<>>, results |-> <<>>]
    /\ err' = "none"
    /\ last' = "new_list"
    /\ UNCHANGED <<fs, cwd, stack, file, saved, load_map, run>>

\* the caller starts to derive short names and leaves the list to the
\* default of get_short_name
DefaultList ==
    /\ last # "hung"
    /\ short_names' = [short_names EXCEPT !.given = <<>>]
    /\ ret' = [method |-> "short_names", how |-> "default", start |-> short_names.default,
               names |-> <<>>, results |-> <<>>]
    /\ err' = "none"
    /\ last' = "new_list"
    /\ UNCHANGED <<fs, cwd, stack, file, saved, load_map, run>>

\* get_short_name(name, short_names = the list of the caller), or
\* get_short_name(name)
GetShortName(name) ==
    /\ last # "hung"
    /\ ret.method = "short_names"
    /\ ret.how \in {"given", "default"}
    /\ Len(ret.names) < MaxNames
    /\ LET names == IF ret.how = "given" THEN short_names.given ELSE short_names.default
           r == get_short_name(name, names)
       IN /\ ret.how = "default" => Len(names) < MaxShortNames
          /\ short_names' = IF ret.how = "given" THEN [short_names EXCEPT !.given = r.short_names]
                            ELSE [short_names EXCEPT !.default = r.short_names]
          /\ ret' = IF r.kind = "return"
                    THEN [ret EXCEPT !.names = Append(@, name), !.results = Append(@, r.short_name)]
                    ELSE ret
          /\ err' = r.exc
          /\ last' = IF r.kind = "hang" THEN "hung" ELSE "get_short_name"
    /\ UNCHANGED <<fs, cwd, stack, file, saved, load_map, run>>

\* layer.kwargs.add_arguments(argparse.ArgumentParser(), short_names = seed),
\* or layer.kwargs.add_arguments(argparse.ArgumentParser()) for how = "default"
AddArguments(how, seed) ==
    /\ last # "hung"
    /\ how = "default" => Len(short_names.add_default) <= MaxShortNames
    /\ IF stack.layers[1].kwargs_mode # "DESC"
       THEN /\ err' = "LayerStackRuntimeError"
            /\ UNCHANGED <<short_names, ret>>
            /\ last' = "add_arguments"
       ELSE LET names == IF how = "given" THEN seed ELSE short_names.add_default
                keys == [j \in 1..Len(stack.layers[1].kwargs) |-> stack.layers[1].kwargs[j].name]
                r == add_arguments(keys, 1, names, NewParser, <<>>)
            IN /\ short_names' = IF how = "given" THEN [short_names EXCEPT !.given = r.short_names]
                                 ELSE [short_names EXCEPT !.add_default = r.short_names, !.given = <<>>]
               /\ ret' = [method |-> "short_names",
                          how |-> IF how = "given" THEN "given" ELSE "add_default", start |-> names,
                          names |-> SubSeq(keys, 1, Len(r.results)), results |-> r.results]
               /\ err' = r.exc
               /\ last' = IF r.kind = "hang" THEN "hung" ELSE "add_arguments"
    /\ UNCHANGED <<fs, cwd, stack, file, saved, load_map, run>>

InitShort ==
    /\ \E keys \in KeyLists :
          LET def == LayerDefKw("la", FALSE, <<>>,
                         [j \in 1..Len(keys) |-> Kwarg(keys[j], NoneV, NoneV, "None", "None", NoChoices, "None")])
          IN /\ stack = StackNew(<<LayerNew(LayerPath, def)>>, NoPath, NoModel)
             /\ fs = (LayerPath :> LayerDir(def))
    /\ cwd = Home
    /\ file = NoFile
    /\ err = "none"
    /\ last = "new"
    /\ saved = [stack |-> EmptyStack, fs |-> <<>>]
    /\ load_map = <<>>
    /\ run = NotRunning
    /\ ret = NoCall
    /\ short_names = NoShortNames

NextShort ==
    \/ \E seed \in Seeds : NewList(seed)
    \/ DefaultList
    \/ \E name \in NamePool : GetShortName(name)
    \/ \E how \in {"given", "default"}, seed \in Seeds : AddArguments(how, seed)

\* a process that derives short names, name by name or for a KwargDict
SpecShort == InitShort /\ [][NextShort]_vars

\* the list the short names of the run are derived against
ListOf(sn, how) == CASE how = "given" -> sn.given
                     [] how = "default" -> sn.default
                     [] OTHER -> sn.add_default

\* C18: a call of get_short_name that returns gives a short name that is not
\* empty and was not in the list, and leaves the list with that short name
\* appended and nothing else changed; so the short names derived against
\* one list, by get_short_name or by add_arguments, differ from each other
\* and from the names the list started with; dredge, rude-awakening and
\* recharge_area against r, d, h give dr, ra and rea
C18_ShortNameUnique ==
    /\ [][(last' = "get_short_name" /\ err' = "none") =>
             LET before == ListOf(short_names, ret.how)
                 result == ret'.results[Len(ret'.results)]
             IN /\ Len(ret'.results) = Len(ret.results) + 1
                /\ result # <<>>
                /\ \A i \in 1..Len(before) : before[i] # result
                /\ ListOf(short_names', ret.how) = Append(before, result)]_vars
    /\ [](ret.method = "short_names" =>
             /\ ListOf(short_names, ret.how) = ret.start \o ret.results
             /\ \A i \in 1..Len(ret.results) :
                   /\ ret.results[i] # <<>>
                   /\ \A j \in 1..Len(ret.start) : ret.start[j] # ret.results[i]
                   /\ \A j \in 1..Len(ret.results) : j # i => ret.results[j] # ret.results[i]
             /\ (ret.start = <<<<"r">>, <<"d">>, <<"h">>>>
                    /\ ret.names = <<DREDGE, RUDE_AWAKENING, RECHARGE_AREA>>) =>
                   ret.results = <<<<"d", "r">>, <<"r", "a">>, <<"r", "e", "a">>>>)

\* the three names of the test have their short names, derived one after
\* the other against the list r, d, h
C18_Witness ==
    /\ last = "get_short_name"
    /\ ret.how = "given"
    /\ ret.start = <<<<"r">>, <<"d">>, <<"h">>>>
    /\ ret.names = <<DREDGE, RUDE_AWAKENING, RECHARGE_AREA>>
    /\ short_names.given = <<<<"r">>, <<"d">>, <<"h">>, <<"d", "r">>, <<"r", "a">>, <<"r", "e", "a">>>>

RECURSIVE DeriveAll(_, _, _)
\* the short names get_short_name returns for the names, one after the
\* other against the list that starts as given, as far as it returns
DeriveAll(names, i, list) ==
    IF i > Len(names) \/ get_short_name(names[i], list).kind # "return" THEN <<>>
    ELSE <<get_short_name(names[i], list).short_name>>
         \o DeriveAll(names, i + 1, get_short_name(names[i], list).short_names)

\* C19: the short names derived for a sequence of names from an empty list,
\* passed by the caller or left to the default of get_short_name or of
\* add_arguments, are those the sequence gives from the empty list, however
\* many times short names were derived in the process before
C19_DerivationRepeats ==
    ret.method = "short_names" =>
       ((ret.how = "given" => ret.start = <<>>) =>
           ret.results = DeriveAll(ret.names, 1, <<>>))

(***************************************************************************)
(* Layers whose arguments depend on the model.  The args and kwargs class  *)
(* methods of such a layer definition take the model; Layer.__init__       *)
(* decides by isinstance whether to pass it.                               *)
(***************************************************************************)
\* ModelForTests(name, count = count, data = data)
TestModel(count, data) == [kind |-> "obj", id |-> 0, count |-> count, data |-> data]

RED == StrV(<<"r">>)

GREEN == StrV(<<"g">>)

Models == {NoModel, TestModel(2, <<>>), TestModel(1, <<RED, GREEN>>)}

\* TestModelDependentArgsKwargs.args(model)
DependentArgs(model) ==
    <<Arg("a_str_argument", NoneV, "None", "None", NoChoices, "None"),
      Arg("an_int_argument", IF model = NoModel THEN NoneV ELSE IntV(model.count),
          "int", "None", NoChoices, "None")>>

\* TestModelDependentArgsKwargs.kwargs(model)
DependentKwargs(model) ==
    <<Kwarg("data_element",
            IF model = NoModel \/ model.data = <<>> THEN NoneV ELSE model.data[1],
            NoneV, "None", "None",
            IF model = NoModel \/ model.data = <<>> THEN NoChoices ELSE Choices(model.data),
            "None")>>

\* the definition in layer.py: a subclass of ModelLayerBase whose class
\* methods args and kwargs read the model
DependentDef ==
    [name |-> "Test model dependent args kwargs", model_aware |-> TRUE,
     args |-> DependentArgs(NoModel), kwargs |-> DependentKwargs(NoModel), dependent |-> TRUE]

\* cls.args(model) of a definition; cls.args() is cls.args(NoModel)
ArgsOf(def, model) == IF "dependent" \in DOMAIN def THEN DependentArgs(model) ELSE def.args

\* cls.kwargs(model) of a definition
KwargsOf(def, model) == IF "dependent" \in DOMAIN def THEN DependentKwargs(model) ELSE def.kwargs

\* isinstance(self._layer, ModelLayerBase): self._layer is the class that
\* load_layer found, and a class is no instance of ModelLayerBase
IsInstanceOfModelLayerBase(def) == FALSE

\* Layer(layer_dir, model)
LayerInit(layer_dir, def, model) ==
    LET model_layer_base_obj == IsInstanceOfModelLayerBase(def)
    IN [py |-> "Layer", layer_dir |-> layer_dir, layer |-> def,
        args |-> IF model_layer_base_obj THEN ArgsOf(def, model) ELSE ArgsOf(def, NoModel),
        kwargs |-> IF model_layer_base_obj THEN KwargsOf(def, model) ELSE KwargsOf(def, NoModel),
        args_mode |-> "DESC", kwargs_mode |-> "DESC"]

DependentPath == Path(TRUE, <<"lib", "test_model_dependent_args_kwargs">>)

LayerFs ==
    (LayerPath :> LayerDir(LayerDef("la", TRUE, <<Arg("X", NoneV, "None", "None", NoChoices, "None")>>)))
    @@ (DependentPath :> LayerDir(DependentDef))

\* layer = Layer(layer_dir, model = model), the layer the caller goes on with
LayerConstruct(layer_dir, model) ==
    /\ last \in Editing
    /\ IF LayerOpen(fs, layer_dir).ok
       THEN /\ stack' = StackNew(<<LayerInit(layer_dir, fs[layer_dir].def, model)>>, NoPath, NoModel)
            /\ err' = "none"
       ELSE /\ stack' = stack
            /\ err' = LayerOpen(fs, layer_dir).exc
    /\ ret' = [method |-> "Layer", layer_dir |-> layer_dir, model |-> model]
    /\ last' = "Layer"
    /\ UNCHANGED <<fs, cwd, file, saved, load_map, short_names, run>>

\* what the caller assigns to the arguments of the layer
LayerValues == {IntV(1), ListV(<<IntV(3), IntV(4)>>), RED, StrV(<<"x">>)}

\* the caller goes on with the layer as the test does: it sets the mode and
\* assigns values
LayerUse ==
    /\ last \in Editing
    /\ \/ \E mode \in {"DESC", "USE"} : SetArgMode(mode)
       \/ /\ stack.layers[1].args_mode = "USE"
          /\ \E i \in 1..MaxArgs, v \in LayerValues : ArgSetItem(1, i, v)
       \/ /\ stack.layers[1].kwargs_mode = "USE"
          /\ \E v \in LayerValues : KwargSetItem("data_element", v)

InitLayer ==
    /\ fs = LayerFs
    /\ \E layer_dir \in DOMAIN LayerFs :
          stack = StackNew(<<LayerInit(layer_dir, LayerFs[layer_dir].def, NoModel)>>, NoPath, NoModel)
    /\ cwd = Home
    /\ file = NoFile
    /\ err = "none"
    /\ last = "new"
    /\ saved = [stack |-> EmptyStack, fs |-> <<>>]
    /\ load_map = <<>>
    /\ run = NotRunning
    /\ ret = NoCall
    /\ short_names = NoShortNames

NextLayer ==
    \/ \E layer_dir \in DOMAIN LayerFs \cup {Path(TRUE, <<"lib", "gone">>)}, model \in Models :
          LayerConstruct(layer_dir, model)
    \/ LayerUse

\* a caller that constructs Layers with and without a model and uses them
SpecLayer == InitLayer /\ [][NextLayer]_vars

\* C20: the Layer constructed from a model-aware definition and a model has
\* the descriptors the args and kwargs class methods return for that model;
\* the Layer constructed without a model has those they return for no model
C20_FactoriesGetTheModel ==
    (last = "Layer" /\ err = "none") =>
        /\ stack.layers[1].args =
              ArgsOf(stack.layers[1].layer,
                     IF stack.layers[1].layer.model_aware THEN ret.model ELSE NoModel)
        /\ stack.layers[1].kwargs =
              KwargsOf(stack.layers[1].layer,
                       IF stack.layers[1].layer.model_aware THEN ret.model ELSE NoModel)

(***************************************************************************)
(* Layer.load_layer: the class of the layer is looked for among the        *)
(* attributes of the module layer.py.  A module is a function from the     *)
(* names of the LayerBase subclasses it defines to the name of the class   *)
(* each one derives from; dir(module) lists the names in sorted order.     *)
(***************************************************************************)
MaxClasses == 3

AllClassNames == <<"A", "B", "C", "D", "E">>

\* the class names of a module, in the order of dir(module)
ClassNames == SubSeq(AllClassNames, 1, MaxClasses)

ClassNameSet == {ClassNames[i] : i \in 1..MaxClasses}

RECURSIVE Ancestors(_, _, _)
\* the classes of the module that cls is a subclass of, itself included;
\* fuel bounds the walk to the length of the longest chain
Ancestors(module, cls, fuel) ==
    IF cls \notin DOMAIN module \/ fuel = 0 THEN {}
    ELSE {cls} \cup Ancestors(module, module[cls], fuel - 1)

RECURSIVE DerivesFromLayerBase(_, _, _)
DerivesFromLayerBase(module, cls, fuel) ==
    IF cls = "LayerBase" THEN TRUE
    ELSE IF cls \notin DOMAIN module \/ fuel = 0 THEN FALSE
    ELSE DerivesFromLayerBase(module, module[cls], fuel - 1)

\* every class of the module derives from LayerBase, through classes of the
\* module
WellFormed(module) == \A cls \in DOMAIN module : DerivesFromLayerBase(module, cls, MaxClasses)

Modules ==
    {module \in UNION {[names -> ClassNameSet \cup {"LayerBase"}] : names \in SUBSET ClassNameSet} :
        WellFormed(module)}

\* issubclass(a, b) for two classes of the module
IsSubclass(module, a, b) == b \in Ancestors(module, a, MaxClasses)

RECURSIVE LoadLayerLoop(_, _, _, _)
\* the loop of load_layer from the i-th name of dir(module) on; candidate is
\* "" for None.  The assert on two classes of different branches is inside
\* the try whose except clause is bare: the AssertionError ends the turn of
\* the loop and nothing else
LoadLayerLoop(module, i, candidate, base_classes) ==
    IF i > MaxClasses THEN candidate
    ELSE LET item == ClassNames[i]
         IN IF item \notin DOMAIN module \/ item \in base_classes
            THEN LoadLayerLoop(module, i + 1, candidate, base_classes)
            ELSE IF candidate # "" /\ candidate # item
            THEN IF IsSubclass(module, item, candidate)
                 THEN LoadLayerLoop(module, i + 1, item, base_classes \cup {candidate})
                 ELSE IF IsSubclass(module, candidate, item)
                 THEN LoadLayerLoop(module, i + 1, candidate, base_classes \cup {item})
                 ELSE LoadLayerLoop(module, i + 1, candidate, base_classes)
            ELSE LoadLayerLoop(module, i + 1, item, base_classes)

\* Layer.load_layer(layer_dir) for the module in layer_dir/layer.py
load_layer(module) ==
    LET candidate == LoadLayerLoop(module, 1, "", {"LayerBase", "ModelLayerBase"})
    IN IF candidate # "" THEN [ok |-> TRUE, cls |-> candidate, exc |-> "none"]
       ELSE [ok |-> FALSE, cls |-> "", exc |-> "LayerStackError"]

ModuleEntry(module) == [kind |-> "module", module |-> module]

\* layer.py of the layer directory is written
WriteModule(module) ==
    /\ fs' = [fs EXCEPT ![LayerPath] = ModuleEntry(module)]
    /\ last' = "write"
    /\ UNCHANGED <<cwd, stack, file, err, saved, load_map, short_names, run, ret>>

\* Layer.load_layer(layer_dir)
LoadLayerModule ==
    /\ fs[LayerPath].kind = "module"
    /\ LET r == load_layer(fs[LayerPath].module)
       IN /\ ret' = [method |-> "load_layer", cls |-> r.cls]
          /\ err' = r.exc
    /\ last' = "load_layer"
    /\ UNCHANGED <<fs, cwd, stack, file, saved, load_map, short_names, run>>

InitModule ==
    /\ \E module \in Modules : fs = (LayerPath :> ModuleEntry(module))
    /\ stack = EmptyStack
    /\ cwd = Home
    /\ file = NoFile
    /\ err = "none"
    /\ last = "new"
    /\ saved = [stack |-> EmptyStack, fs |-> <<>>]
    /\ load_map = <<>>
    /\ run = NotRunning
    /\ ret = NoCall
    /\ short_names = NoShortNames

NextModule ==
    \/ \E module \in Modules : WriteModule(module)
    \/ LoadLayerModule

\* layer modules are written and loaded
SpecModule == InitModule /\ [][NextModule]_vars

\* two classes of the module are on different branches
Divergent(module) ==
    \E a, b \in DOMAIN module : ~IsSubclass(module, a, b) /\ ~IsSubclass(module, b, a)

\* C21: load_layer of a module with classes on different branches raises the
\* ambiguity error and returns no class; of a module without a LayerBase
\* subclass it raises LayerStackError; of a module whose classes are one
\* chain it returns the class that derives from all the others
C21_LoadLayerResolution ==
    last = "load_layer" =>
        LET module == fs[LayerPath].module
        IN IF Divergent(module) THEN err = "AssertionError" /\ ret.cls = ""
           ELSE IF DOMAIN module = {} THEN err = "LayerStackError" /\ ret.cls = ""
           ELSE /\ err = "none"
                /\ ret.cls \in DOMAIN module
                /\ \A c \in DOMAIN module : IsSubclass(module, ret.cls, c)

(***************************************************************************)
(* The UUID of a Stack.  uuid4() is an environment call: it returns a UUID *)
(* that was never returned before.  Inside class Stack the name __uuid is  *)
(* the attribute _Stack__uuid (field Stack__uuid); _uuid is another        *)
(* attribute (field uuid_attr, NoUuid while it does not exist).            *)
(***************************************************************************)
\* the number of UUIDs uuid4 returns before the caller stops
MaxUuids == 4

Uuids == 1..MaxUuids

NoUuid == 0

\* Stack.__init__ with the UUID u returned by uuid4
StackInit(layers, run_dir, model, u) ==
    [layers |-> layers, run_dir |-> run_dir, model |-> model, Stack__uuid |-> u,
     uuid_attr |-> NoUuid]

\* Stack.uuid
uuid(stk) == stk.Stack__uuid

\* Stack._json_data with its key 'uuid'
json_data_uuid(stk) ==
    [uuid |-> uuid(stk), run_dir |-> PathStr(stk.run_dir), model |-> stk.model,
     layers |-> [i \in 1..Len(stk.layers) |-> LayerJson(stk.layers[i])]]

\* the end of Stack.load: cls(...) with the UUID u returned by uuid4, then
\* result._uuid = UUID(json_data['uuid'])
StackLoadUuid(files, json, u) ==
    LET r == StackLoad(files, json, NoLibs, TRUE)
    IN [StackInit(r.stack.layers, r.stack.run_dir, r.stack.model, u)
            EXCEPT !.uuid_attr = json.uuid]

\* stack = Stack(run_dir=run_dir)
StackConstruct(run_dir, u) ==
    /\ u \notin ret.issued
    /\ stack' = StackInit(<<>>, run_dir, NoModel, u)
    /\ ret' = [method |-> "Stack", issued |-> ret.issued \cup {u}]
    /\ err' = "none"
    /\ last' = "construct"
    /\ UNCHANGED <<fs, cwd, file, saved, load_map, short_names, run>>

\* stack.save(filename): saved keeps the document that was on disk before
SaveUuid ==
    /\ file' = json_data_uuid(stack)
    /\ saved' = [stack |-> stack, fs |-> fs, file |-> file]
    /\ err' = "none"
    /\ last' = "save"
    /\ UNCHANGED <<fs, cwd, stack, load_map, short_names, run, ret>>

\* stack = Stack.load(filename)
LoadUuid(u) ==
    /\ file.uuid # NoUuid
    /\ u \notin ret.issued
    /\ stack' = StackLoadUuid(fs, file, u)
    /\ ret' = [method |-> "load", issued |-> ret.issued \cup {u}]
    /\ err' = "none"
    /\ last' = "load"
    /\ UNCHANGED <<fs, cwd, file, saved, load_map, short_names, run>>

NoFileUuid == [uuid |-> NoUuid, run_dir |-> NoPath, model |-> NoModel, layers |-> <<>>]

InitUuid ==
    /\ \E u \in Uuids :
          /\ stack = StackInit(<<>>, NoPath, NoModel, u)
          /\ ret = [method |-> "Stack", issued |-> {u}]
    /\ fs = (Home :> PlainDir)
    /\ cwd = Home
    /\ file = NoFileUuid
    /\ err = "none"
    /\ last = "new"
    /\ saved = [stack |-> EmptyStack, fs |-> <<>>, file |-> NoFileUuid]
    /\ load_map = <<>>
    /\ run = NotRunning
    /\ short_names = NoShortNames

NextUuid ==
    \/ \E run_dir \in {NoPath, OutAbs}, u \in Uuids : StackConstruct(run_dir, u)
    \/ SaveUuid
    \/ \E u \in Uuids : LoadUuid(u)
    \/ \E value \in {NoPath, OutAbs, OutRel} : SetRunDir(value)

\* Stacks are constructed, saved and loaded
SpecUuid == InitUuid /\ [][NextUuid]_vars

\* C23: a loaded Stack reports through its uuid property the UUID recorded in
\* the document it was loaded from, and a save of a loaded Stack writes the
\* UUID of the document it was loaded from.
C23_LoadedUuidIsRecorded ==
    /\ last = "load" => uuid(stack) = file.uuid
    /\ (last = "save" /\ ret.method = "load" /\ saved.file.uuid # NoUuid) =>
           file.uuid = saved.file.uuid

\* C24: stack[i] = L for a Layer L leaves the length of the Stack unchanged:
\* it replaces the element at i and inserts nothing.
C24_SetItemReplaces ==
    [][(last' = "setitem" /\ err' = "none") => Len(stack'.layers) = Len(stack.layers)]_vars

\* C29: a Stack saved with run_dir None has run_dir None again after the
\* load, and is not runnable.
C29_RunDirNoneRoundTrip ==
    (last = "load" /\ err = "none" /\ saved.stack.run_dir.nil) =>
        (stack.run_dir.nil /\ ~runnable(stack))

\* the plan assigns the serialized argument i of layer l to a live
\* descriptor of its own name
NameMatched(l, i) ==
    /\ load_map[l][i] # 0
    /\ FreshArg(l, load_map[l][i]).name = file.layers[l].args[i].name

\* the plan assigns the serialized argument i of layer l to the live
\* descriptor at its own index, which has another name
PositionMatched(l, i) ==
    /\ load_map[l][i] = i
    /\ FreshArg(l, i).name # file.layers[l].args[i].name

\* C25: the plan of Stack.load assigns no two serialized arguments to the
\* same live descriptor; a serialized argument is assigned by position alone
\* only to an index that exists and that no other serialized argument,
\* earlier or later, is matched to by name; every assignment is by name or by
\* position; a live descriptor that no serialized argument is assigned to is
\* as Layer.__init__ made it.
C25_PlanInjectiveNamesFirst ==
    (last = "load" /\ err = "none") =>
        \A l \in 1..Len(file.layers) :
            /\ Len(load_map[l]) = Len(file.layers[l].args)
            /\ \A i, k \in 1..Len(load_map[l]) :
                  (load_map[l][i] # 0 /\ load_map[l][i] = load_map[l][k]) => i = k
            /\ \A i \in 1..Len(load_map[l]) :
                  /\ load_map[l][i] \in 0..Len(stack.layers[l].args)
                  /\ load_map[l][i] # 0 => (NameMatched(l, i) \/ PositionMatched(l, i))
                  /\ PositionMatched(l, i) =>
                        \A k \in 1..Len(load_map[l]) : NameMatched(l, k) => load_map[l][k] # i
            /\ \A j \in 1..Len(stack.layers[l].args) :
                  SerializedFor(l, j) = {} => stack.layers[l].args[j] = FreshArg(l, j)

\* a serialized list of two was loaded against a live list of two: the later
\* argument is matched by name to the first descriptor, the earlier one, whose
\* name is gone, is matched by no rule although its index exists, and the
\* second descriptor has no value
C25_Witness ==
    /\ last = "load"
    /\ err = "none"
    /\ Len(file.layers) = 1
    /\ load_map[1] = <<0, 1>>
    /\ Len(stack.layers[1].args) = 2
    /\ ~NameIn(stack.layers[1].args, file.layers[1].args[1].name)
    /\ file.layers[1].args[1].value # NoneV
    /\ NameMatched(1, 2)
    /\ stack.layers[1].args[2] = FreshArg(1, 2)

(***************************************************************************)
(* Assignments that fail: the value of a descriptor is set directly, or    *)
(* through its container in USE mode.                                      *)
(***************************************************************************)
\* the layers of one descriptor: scalar or list, parsed by int or not, with
\* choices or without
AssignDefs ==
    {LayerDefKw("la", FALSE, <<Arg("X", n, p, "None", ch, "None")>>, <<>>) :
        n \in {NoneV, StrV(<<"+">>)}, p \in {"None", "int"},
        ch \in {NoChoices, Choices(<<IntV(1), IntV(2)>>)}}
    \cup
    {LayerDefKw("la", FALSE, <<>>, <<Kwarg("p", IntV(1), NoneV, p, "None", ch, "None")>>) :
        p \in {"None", "int"}, ch \in {NoChoices, Choices(<<IntV(1), IntV(2)>>)}}

\* the values a caller assigns
AssignedValues == {NoneV, IntV(2), StrV(<<"a">>), ListV(<<IntV(1), IntV(5)>>)}

InitAssign ==
    /\ \E def \in AssignDefs :
          /\ stack = StackNew(<<LayerNew(LayerPath, def)>>, NoPath, NoModel)
          /\ fs = (LayerPath :> LayerDir(def))
    /\ cwd = Home
    /\ file = NoFile
    /\ err = "none"
    /\ last = "new"
    /\ saved = [stack |-> EmptyStack, fs |-> <<>>]
    /\ load_map = <<>>
    /\ run = NotRunning
    /\ ret = NoCall
    /\ short_names = NoShortNames

NextAssign ==
    \/ \E v \in AssignedValues : ArgValueSet(1, v)
    \/ \E v \in AssignedValues : KwargValueSet("p", v)
    \/ \E mode \in {"DESC", "USE"} : SetArgMode(mode)
    \/ \E v \in AssignedValues : ArgSetItem(1, 1, v)
    \/ \E v \in AssignedValues : KwargSetItem("p", v)

\* a caller that assigns values to the descriptor of a Layer, directly and
\* through the containers of the Layer
SpecAssign == InitAssign /\ [][NextAssign]_vars

\* C26: an assignment to an Arg or Kwarg that raises, made directly or
\* through the container, leaves every descriptor of the Layer, its stored
\* value and whether it is set or defaulted included, exactly as it was.
C26_FailedAssignmentChangesNothing ==
    [][(last' \in {"value", "edit", "put"} /\ err' # "none") => stack' = stack]_vars

\* a write through the ArgList in USE mode was refused by the choices of an
\* Arg that has a value
C26_Witness ==
    /\ last = "edit"
    /\ err = "LayerStackRuntimeError"
    /\ stack.layers[1].args_mode = "USE"
    /\ Len(stack.layers[1].args) = 1
    /\ stack.layers[1].args[1].choices.has
    /\ ArgSet(stack.layers[1].args[1])

\* C27: every call of get_short_name ends: it returns a short name or raises
\* LayerStackRuntimeError, and never loops forever.
C27_ShortNameTerminates ==
    /\ last # "hung"
    /\ last = "get_short_name" => err \in {"none", "LayerStackRuntimeError"}

\* C28: with the layer definitions unchanged between save and load, every
\* positional argument that was unset when the Stack was saved is unset on
\* the loaded Stack, and every layer is runnable after the load exactly when
\* it was before the save.
C28_UnsetStaysUnset ==
    (last = "load" /\ err = "none" /\ fs = saved.fs) =>
        \A l \in 1..Len(saved.stack.layers) :
            /\ \A i \in 1..Len(saved.stack.layers[l].args) :
                  ~ArgSet(saved.stack.layers[l].args[i]) => ~ArgSet(stack.layers[l].args[i])
            /\ LayerRunnable(stack.layers[l]) = LayerRunnable(saved.stack.layers[l])

\* C30: Stack.save leaves the Stack as it was: the mode of the ArgList and of
\* the KwargDict of every layer, and every stored value.
C30_SaveLeavesModes ==
    [][last' = "save" => stack' = stack]_vars

====
